---- MODULE Spec2Model ----
(***************************************************************************)
(* A model of the SQLite support of malloy: the extension functions that    *)
(* the connection installs (udf_functions.ts), the connection itself        *)
(* (sqlite_connection.ts) and the SQLite dialect (dialect/sqlite).          *)
(*                                                                          *)
(* JavaScript strings are TLA+ strings; the character at index i of s is    *)
(* SubSeq(s, i, i).  The other JavaScript values are tagged records.        *)
(***************************************************************************)
EXTENDS Integers, Sequences, FiniteSets

VARIABLES
    acc,        \* set_concat: the accumulator (SetAggState) of one aggregate invocation
    steps,      \* history: the number of step(v) calls, per non-null value v
    inverses,   \* history: the number of inverse(v) calls, per non-null value v
    matched,    \* history: every inverse(v) so far followed a step(v) of its own
    aggOut,     \* set_concat: what the last result call returned
    connState,  \* SqliteConnection: "none", "ready", "failed" (the constructor threw) or "closed"
    dbOpen,     \* the better-sqlite3 handle this.db is open
    dbLog,      \* the calls made on the handle, in order: [op, by, sql]
    probe,      \* what the version probe's get() returned (NotRun before it ran)
    error,      \* the error the constructor threw, or Null
    effects,    \* how many times a statement with side effects has been executed
    methods,    \* how many methods have been called on the connection object
    call,       \* the function last called, with its arguments: [fn, args]
    ret,        \* what that call returned, or what it threw
    query,      \* the string aggregate being evaluated: its SQL text and arguments
    rows,       \* history: the (key, value) rows the aggregate has been fed
    heap,       \* the accumulator objects the start function has made, by address
    invocations \* the aggregate invocations of udf_set_concat in progress

aggVars == <<acc, steps, inverses, matched, aggOut>>
connVars == <<connState, dbOpen, dbLog, probe, error, effects, methods>>
callVars == <<call, ret>>
queryVars == <<query, rows>>
invVars == <<heap, invocations>>
vars == <<aggVars, connVars, callVars, queryVars, invVars>>

(***************************************************************************)
(* JavaScript values                                                        *)
(***************************************************************************)
Null == [k |-> "null"]
Undefined == [k |-> "undefined"]
Str(s) == [k |-> "string", v |-> s]
Num(n) == [k |-> "number", v |-> n]

\* typeof value
typeof(value) ==
    IF value = Null THEN "object" ELSE value.k

\* value === null || value === undefined
isNullOrUndefined(value) ==
    value = Null \/ value = Undefined

\* a ?? b
Coalesce(a, b) ==
    IF isNullOrUndefined(a) THEN b ELSE a

\* String(value), as Array.prototype.join applies it to an element
JsString(value) ==
    IF isNullOrUndefined(value) THEN "" ELSE value.v

\* Array.prototype.join
RECURSIVE Join(_, _)
Join(arr, separator) ==
    IF arr = <<>> THEN ""
    ELSE IF Len(arr) = 1 THEN JsString(arr[1])
    ELSE JsString(arr[1]) \o separator \o Join(Tail(arr), separator)

\* the number of places at which `piece` occurs in `text`
Occurrences(piece, text) ==
    Cardinality({i \in 1..Len(text) : SubSeq(text, i, i + Len(piece) - 1) = piece})

(***************************************************************************)
(* set_concat: the windowed set aggregate.  A JavaScript Set keeps its      *)
(* members in insertion order, so it is a sequence without repetitions.     *)
(***************************************************************************)
SetHas(set, value) ==
    \E i \in DOMAIN set : set[i] = value

\* Set.prototype.add keeping only the first member ever added
SetAdd_FirstOnly(set, value) ==
    IF set = <<>> THEN <<value>> ELSE set

\* Set.prototype.add
SetAdd(set, value) ==
    IF SetHas(set, value) THEN set ELSE Append(set, value)

\* Set.prototype.delete taking the last member away when the value is no member
SetDelete_AbsentDropsLast(set, value) ==
    IF SetHas(set, value) THEN SelectSeq(set, LAMBDA m : m # value)
    ELSE SubSeq(set, 1, Len(set) - 1)

\* Set.prototype.delete
SetDelete(set, value) ==
    SelectSeq(set, LAMBDA m : m # value)

\* start: () => ({set: new Set(), sep: null, set_sep: false})
set_concat_start ==
    [set |-> <<>>, sep |-> Null, set_sep |-> FALSE]

\* rest?.[0]
RestArg(rest) ==
    IF Len(rest) = 0 THEN Undefined ELSE rest[1]

\* step: (acc, next, ...rest) => acc
set_concat_step(a, next, rest) ==
    LET a1 == IF /\ ~a.set_sep
                  /\ ~isNullOrUndefined(RestArg(rest))
                  /\ typeof(RestArg(rest)) = "string"
               THEN [a EXCEPT !.sep = RestArg(rest)]
               ELSE a
    IN  IF ~isNullOrUndefined(next)
        THEN [a1 EXCEPT !.set = SetAdd(a1.set, next)]
        ELSE a1

\* inverse: (acc, dropped) => acc
set_concat_inverse(a, dropped) ==
    IF ~isNullOrUndefined(dropped)
    THEN [a EXCEPT !.set = SetDelete(a.set, dropped)]
    ELSE a

\* result: acc => Array.from(acc.set).join(acc.sep ?? ',')
set_concat_result(a) ==
    Join(a.set, JsString(Coalesce(a.sep, Str(","))))

(***************************************************************************)
(* One aggregate invocation of udf_set_concat: SQLite calls start once,     *)
(* then step for a row entering the frame, inverse for a row leaving it     *)
(* and result for the value of the frame.                                   *)
(***************************************************************************)
MaxCalls == 4

\* the version probe has not run
NotRun == [k |-> "notrun"]

\* the connection, before any is constructed
ConnIdle ==
    /\ connState = "none"
    /\ dbOpen = FALSE
    /\ dbLog = <<>>
    /\ probe = NotRun
    /\ error = Null
    /\ effects = 0
    /\ methods = 0

\* no function called yet
CallIdle ==
    /\ call = [fn |-> "none", args |-> <<>>]
    /\ ret = Undefined

\* no string aggregate being evaluated
QueryIdle ==
    /\ query = Null
    /\ rows = <<>>

MaxInvocations == 2

\* an aggregate invocation SQLite has not begun
NotStarted ==
    [status |-> "idle", ref |-> 0, stepped |-> {}, seps |-> {}, calls |-> 0,
     out |-> Null]

\* no aggregate invocation begun, and no accumulator object made
InvIdle ==
    /\ heap = <<>>
    /\ invocations = [i \in 1..MaxInvocations |-> NotStarted]

AggValues == {Str("a"), Str("b")}
AggInputs == AggValues \cup {Null, Undefined}
AggRests == {<<>>, <<Null>>, <<Num(0)>>, <<Str(";")>>, <<Str("|")>>}

Calls == LET Sum(f) == f[Str("a")] + f[Str("b")] IN Sum(steps) + Sum(inverses)

AggInit ==
    /\ acc = set_concat_start
    /\ steps = [v \in AggValues |-> 0]
    /\ inverses = [v \in AggValues |-> 0]
    /\ matched = TRUE
    /\ aggOut = Null
    /\ ConnIdle
    /\ CallIdle
    /\ QueryIdle
    /\ InvIdle

AggStep ==
    \E next \in AggInputs, rest \in AggRests :
        /\ Calls < MaxCalls
        /\ acc' = set_concat_step(acc, next, rest)
        /\ steps' = IF next \in AggValues
                    THEN [steps EXCEPT ![next] = @ + 1] ELSE steps
        /\ UNCHANGED <<inverses, matched, aggOut, connVars, callVars, queryVars,
                       invVars>>

AggInverse ==
    \E dropped \in AggInputs :
        /\ Calls < MaxCalls
        /\ acc' = set_concat_inverse(acc, dropped)
        /\ inverses' = IF dropped \in AggValues
                       THEN [inverses EXCEPT ![dropped] = @ + 1] ELSE inverses
        /\ matched' = (matched /\ (dropped \in AggValues =>
                                      inverses[dropped] < steps[dropped]))
        /\ UNCHANGED <<steps, aggOut, connVars, callVars, queryVars, invVars>>

\* result emptying the set it has joined
AggResult_ClearsSet ==
    /\ aggOut' = Str(set_concat_result(acc))
    /\ acc' = [acc EXCEPT !.set = <<>>]
    /\ UNCHANGED <<steps, inverses, matched, connVars, callVars, queryVars,
                   invVars>>

AggResult ==
    /\ aggOut' = Str(set_concat_result(acc))
    /\ UNCHANGED <<acc, steps, inverses, matched, connVars, callVars, queryVars,
                   invVars>>

AggNext == AggStep \/ AggInverse \/ AggResult

SpecAgg == AggInit /\ [][AggNext]_vars

(***************************************************************************)
(* C1: after step and inverse calls in which every inverse(v) follows a     *)
(* step(v) of its own, a non-null value v occurs in result exactly once if  *)
(* there were more step(v) than inverse(v) calls, and not at all otherwise  *)
(* (step a, step a, step b, inverse a: a once and b once).                  *)
(***************************************************************************)
C1_LiveValuesOccurOnce ==
    matched =>
        \A v \in AggValues :
            Occurrences(v.v, set_concat_result(acc)) =
                IF steps[v] > inverses[v] THEN 1 ELSE 0

(***************************************************************************)
(* C8: once a step call has stored a string separator, no later step,       *)
(* inverse or result call changes the stored separator.                     *)
(***************************************************************************)
C8_SeparatorStable ==
    [][acc.sep # Null => acc'.sep = acc.sep]_vars

(***************************************************************************)
(* Aggregate invocations of udf_set_concat on one handle.  The function is  *)
(* registered as db.aggregate(name, {...options, ...fn()}): one object with *)
(* the start, step, inverse and result of set_concat().  Its start is a     *)
(* function, which better-sqlite3 calls at the beginning of every           *)
(* invocation; step, inverse and result get the accumulator of their own    *)
(* invocation.  An accumulator is an object: the heap holds the objects     *)
(* made so far, and an invocation holds the address of its own.             *)
(***************************************************************************)
MaxInvocationCalls == 2

\* start as one object made at registration and handed to every invocation
AggregateStart_SharedObject(objects) ==
    IF objects = <<>> THEN <<Append(objects, set_concat_start), 1>>
    ELSE <<objects, 1>>

\* start(): <<the heap with the new object, the address of the object>>
AggregateStart(objects) ==
    <<Append(objects, set_concat_start), Len(objects) + 1>>

\* the step and inverse calls made so far, over all invocations
RECURSIVE InvocationCallsUpTo(_)
InvocationCallsUpTo(i) ==
    IF i = 0 THEN 0 ELSE invocations[i].calls + InvocationCallsUpTo(i - 1)

InvocationCalls == InvocationCallsUpTo(MaxInvocations)

InvInputs == AggValues \cup {Null}
InvRests == {<<>>, <<Str(";")>>, <<Str("|")>>}

\* SQLite begins an invocation: the aggregate is used in one more place of a
\* query, or for one more group or window
InvStart ==
    \E i \in 1..MaxInvocations :
        /\ invocations[i].status = "idle"
        /\ LET made == AggregateStart(heap)
           IN  /\ heap' = made[1]
               /\ invocations' = [invocations EXCEPT ![i].status = "running",
                                                     ![i].ref = made[2]]
        /\ UNCHANGED <<aggVars, connVars, callVars, queryVars>>

\* step mutates the accumulator it is handed and returns it
InvStep ==
    \E i \in 1..MaxInvocations, next \in InvInputs, rest \in InvRests :
        /\ invocations[i].status = "running"
        /\ InvocationCalls < MaxInvocationCalls
        /\ heap' = [heap EXCEPT ![invocations[i].ref] = set_concat_step(@, next, rest)]
        /\ invocations' =
              [invocations EXCEPT
                  ![i].stepped = @ \cup (IF next \in AggValues THEN {next} ELSE {}),
                  ![i].seps = @ \cup {rest[j] : j \in DOMAIN rest},
                  ![i].calls = @ + 1]
        /\ UNCHANGED <<aggVars, connVars, callVars, queryVars>>

InvInverse ==
    \E i \in 1..MaxInvocations, dropped \in InvInputs :
        /\ invocations[i].status = "running"
        /\ InvocationCalls < MaxInvocationCalls
        /\ heap' = [heap EXCEPT ![invocations[i].ref] = set_concat_inverse(@, dropped)]
        /\ invocations' = [invocations EXCEPT ![i].calls = @ + 1]
        /\ UNCHANGED <<aggVars, connVars, callVars, queryVars>>

InvResult ==
    \E i \in 1..MaxInvocations :
        /\ invocations[i].status = "running"
        /\ invocations' =
              [invocations EXCEPT
                  ![i].out = Str(set_concat_result(heap[invocations[i].ref]))]
        /\ UNCHANGED <<heap, aggVars, connVars, callVars, queryVars>>

InvNext == InvStart \/ InvStep \/ InvInverse \/ InvResult

SpecInvocations == AggInit /\ [][InvNext]_vars

(***************************************************************************)
(* Strings                                                                  *)
(***************************************************************************)
CharAt(s, i) == SubSeq(s, i, i)

\* String.prototype.indexOf, from 1; 0 when `c` does not occur
IndexOf(s, c) ==
    IF \E i \in 1..Len(s) : SubSeq(s, i, i + Len(c) - 1) = c
    THEN CHOOSE i \in 1..Len(s) :
            /\ SubSeq(s, i, i + Len(c) - 1) = c
            /\ \A j \in 1..(i - 1) : SubSeq(s, j, j + Len(c) - 1) # c
    ELSE 0

\* String.prototype.split on a one-character delimiter
RECURSIVE Split(_, _)
Split(s, d) ==
    LET i == IndexOf(s, d)
    IN  IF i = 0 THEN <<s>>
        ELSE <<SubSeq(s, 1, i - 1)>> \o Split(SubSeq(s, i + 1, Len(s)), d)

DigitChars == {CharAt("0123456789", i) : i \in 1..10}

DigitVal(c) == CHOOSE d \in 0..9 : CharAt("0123456789", d + 1) = c

RECURSIVE ParseNat(_)
ParseNat(s) ==
    IF s = "" THEN 0
    ELSE ParseNat(SubSeq(s, 1, Len(s) - 1)) * 10 + DigitVal(CharAt(s, Len(s)))

(***************************************************************************)
(* semver, as sqlite_connection.ts uses it                                  *)
(***************************************************************************)
Invalid == <<>>

\* a numeric identifier of semver: 0|[1-9]\d*
IsNumericIdentifier(s) ==
    /\ Len(s) > 0
    /\ \A i \in 1..Len(s) : CharAt(s, i) \in DigitChars
    /\ (Len(s) > 1 => CharAt(s, 1) # "0")

\* new SemVer(version): <<major, minor, patch>>, or Invalid where it throws TypeError
SemVer(version) ==
    LET parts == Split(version, ".")
    IN  IF Len(parts) = 3 /\ \A i \in 1..3 : IsNumericIdentifier(parts[i])
        THEN <<ParseNat(parts[1]), ParseNat(parts[2]), ParseNat(parts[3])>>
        ELSE Invalid

\* SemVer.compare of two parsed versions: 1, 0 or -1
SemVerCompare(a, b) ==
    IF a[1] # b[1] THEN (IF a[1] > b[1] THEN 1 ELSE -1)
    ELSE IF a[2] # b[2] THEN (IF a[2] > b[2] THEN 1 ELSE -1)
    ELSE IF a[3] # b[3] THEN (IF a[3] > b[3] THEN 1 ELSE -1)
    ELSE 0

SQLITE_MIN_VERSION_TEXT == "3.38.0"
SQLITE_MIN_VERSION == SemVer(SQLITE_MIN_VERSION_TEXT)

(***************************************************************************)
(* registerUserDefinedFunctions                                             *)
(***************************************************************************)
SCALAR_UDF_FUNCTIONS ==
    <<"udf_uuid", "udf_regexp_contains", "udf_regexp_extract",
      "udf_regexp_replace", "udf_string_repeat", "udf_reverse">>

AGGREGATE_UDF_FUNCTIONS == <<"udf_set_concat">>

\* the db.function and db.aggregate calls registerUserDefinedFunctions makes
registerUserDefinedFunctions ==
    [i \in 1..Len(SCALAR_UDF_FUNCTIONS) |->
        [op |-> "function", by |-> "registerUserDefinedFunctions",
         sql |-> SCALAR_UDF_FUNCTIONS[i]]]
    \o
    [i \in 1..Len(AGGREGATE_UDF_FUNCTIONS) |->
        [op |-> "aggregate", by |-> "registerUserDefinedFunctions",
         sql |-> AGGREGATE_UDF_FUNCTIONS[i]]]

\* the names registerUserDefinedFunctions returns
registered ==
    {registerUserDefinedFunctions[i].sql : i \in DOMAIN registerUserDefinedFunctions}

(***************************************************************************)
(* SqliteConnection                                                         *)
(***************************************************************************)
Row(version) == [k |-> "row", version |-> version]

\* !value
Falsy(value) ==
    value = Null \/ value = Undefined \/ value = Str("") \/ value = Num(0)

VERSION_SQL == "SELECT sqlite_version() as version"

\* what sqlite_version() can report, among them releases with four components
Versions == {"2.8.17", "3.8.3", "3.8.10.2", "3.9.0", "3.37.2", "3.38.0", "3.38.1", "4.0.0"}
ProbeResults == {Undefined, Row(Null), Row(Str(""))} \cup {Row(Str(v)) : v \in Versions}

\* validateMinimumVersion with a floor that only a later version passes
validateMinimumVersion_RejectsFloor(version_result) ==
    LET version_string == IF version_result = Undefined THEN Undefined
                          ELSE version_result.version
    IN  IF Falsy(version_string)
        THEN Str("Failed to get sqlite version")
        ELSE IF SemVer(version_string.v) = Invalid
        THEN Str("TypeError: Invalid Version")
        ELSE IF SemVerCompare(SQLITE_MIN_VERSION, SemVer(version_string.v)) # -1
        THEN Str("Database is not at least version")
        ELSE Null

\* validateMinimumVersion, after the probe returned version_result: the error
\* thrown, or Null
validateMinimumVersion(version_result) ==
    LET version_string == IF version_result = Undefined THEN Undefined
                          ELSE version_result.version
    IN  IF Falsy(version_string)
        THEN Str("Failed to get sqlite version")
        ELSE IF SemVer(version_string.v) = Invalid
        THEN Str("TypeError: Invalid Version")
        ELSE IF SemVerCompare(SQLITE_MIN_VERSION, SemVer(version_string.v)) = 1
        THEN Str("Database is not at least version")
        ELSE Null

Call(op, by, sql) == [op |-> op, by |-> by, sql |-> sql]

\* this.db.prepare(sql).<exec>() made by method `by`
PrepareAnd(exec, by, sql) ==
    <<Call("prepare", by, sql), Call(exec, by, sql)>>

ExecOps == {"run", "all", "get", "iterate"}

\* the statement changes the database when executed
HasSideEffects(sql) ==
    SubSeq(sql, 1, 6) # "SELECT" /\ SubSeq(sql, 1, 6) # "PRAGMA"

EffectsOf(calls) ==
    Cardinality({i \in DOMAIN calls :
                    calls[i].op \in ExecOps /\ HasSideEffects(calls[i].sql)})

\* options.attachPaths, as [namespace, path] entries
AttachOptions == {<<>>, <<[namespace |-> "malloytest", path |-> "test.db"]>>}

AttachSQL(a) == "ATTACH DATABASE '" \o a.path \o "' AS " \o a.namespace

\* the calls the attach loop of the constructor makes
RECURSIVE AttachCalls(_)
AttachCalls(attachPaths) ==
    IF attachPaths = <<>> THEN <<>>
    ELSE PrepareAnd("run", "constructor", AttachSQL(Head(attachPaths)))
            \o AttachCalls(Tail(attachPaths))

\* splitOnce
splitOnce(str) ==
    LET index == IndexOf(str, ".")
    IN  IF index = 0 THEN <<str>>
        ELSE <<SubSeq(str, 1, index - 1), SubSeq(str, index + 1, Len(str))>>

\* the PRAGMA command of fetchTableSchema
TableInfoCommand(tablePath) ==
    LET parts == splitOnce(tablePath)
    IN  IF Len(parts) = 2 /\ parts[2] # ""
        THEN "PRAGMA " \o parts[1] \o ".table_info(" \o parts[2] \o ")"
        ELSE "PRAGMA table_info(" \o parts[1] \o ")"

MaxMethods == 3

SqlInputs == {"SELECT 1 as n", "INSERT INTO t VALUES (1) RETURNING *"}
TablePaths == {"airports", "malloytest.airports"}

\* new SqliteConnection(name, options)
Construct ==
    \E attachPaths \in AttachOptions, openOk \in BOOLEAN, attachOk \in BOOLEAN,
       version_result \in ProbeResults :
        /\ connState = "none"
        /\ methods' = 0
        /\ IF ~openOk
           THEN \* new SqliteDatabase throws
                /\ connState' = "failed"
                /\ dbOpen' = FALSE
                /\ dbLog' = <<>>
                /\ probe' = NotRun
                /\ error' = Str("open")
           ELSE IF attachPaths # <<>> /\ ~attachOk
           THEN \* the first ATTACH throws
                /\ connState' = "failed"
                /\ dbOpen' = TRUE
                /\ dbLog' = <<Call("open", "constructor", "")>>
                                \o AttachCalls(<<Head(attachPaths)>>)
                /\ probe' = NotRun
                /\ error' = Str("attach")
           ELSE /\ dbOpen' = TRUE
                /\ dbLog' = <<Call("open", "constructor", "")>>
                                \o AttachCalls(attachPaths)
                                \o PrepareAnd("get", "validateMinimumVersion", VERSION_SQL)
                /\ probe' = version_result
                /\ error' = validateMinimumVersion(version_result)
                /\ connState' = IF validateMinimumVersion(version_result) = Null
                                THEN "ready" ELSE "failed"
        /\ effects' = EffectsOf(dbLog')
        /\ UNCHANGED <<aggVars, callVars, queryVars, invVars>>

\* a method that prepares one statement and then calls `after` on it
Method(by, after, sql) ==
    /\ connState = "ready"
    /\ methods < MaxMethods
    /\ methods' = methods + 1
    /\ dbLog' = dbLog \o PrepareAnd(after, by, sql)
    /\ effects' = effects + EffectsOf(PrepareAnd(after, by, sql))
    /\ UNCHANGED <<connState, dbOpen, probe, error, aggVars, callVars, queryVars, invVars>>

getDatabases == Method("getDatabases", "all", "PRAGMA database_list")

test == Method("test", "all", "SELECT 1")

runSQL == \E sql \in SqlInputs : Method("runSQL", "all", sql)

executeSQL == \E sql \in SqlInputs : Method("executeSQL", "run", sql)

fetchTableSchema ==
    \E tablePath \in TablePaths :
        Method("fetchTableSchema", "all", TableInfoCommand(tablePath))

\* fetchSelectSchema reading the columns off the rows of the statement
fetchSelectSchema_Runs ==
    \E selectStr \in SqlInputs : Method("fetchSelectSchema", "all", selectStr)

\* prepare, then statement.columns(); the statement is not run
fetchSelectSchema ==
    \E selectStr \in SqlInputs : Method("fetchSelectSchema", "columns", selectStr)

\* registerUserDefinedFunctions(db), called with the handle of the connection
Call_registerUserDefinedFunctions ==
    /\ connState = "ready"
    /\ methods < MaxMethods
    /\ methods' = methods + 1
    /\ dbLog' = dbLog \o registerUserDefinedFunctions
    /\ UNCHANGED <<connState, dbOpen, probe, error, effects, aggVars, callVars,
                   queryVars, invVars>>

close ==
    /\ connState = "ready"
    /\ connState' = "closed"
    /\ dbOpen' = FALSE
    /\ dbLog' = Append(dbLog, Call("close", "close", ""))
    /\ UNCHANGED <<probe, error, effects, methods, aggVars, callVars, queryVars, invVars>>

Init ==
    /\ ConnIdle
    /\ CallIdle
    /\ QueryIdle
    /\ InvIdle
    /\ acc = set_concat_start
    /\ steps = [v \in AggValues |-> 0]
    /\ inverses = [v \in AggValues |-> 0]
    /\ matched = TRUE
    /\ aggOut = Null

Next ==
    \/ Construct
    \/ getDatabases
    \/ test
    \/ runSQL
    \/ executeSQL
    \/ fetchTableSchema
    \/ fetchSelectSchema
    \/ Call_registerUserDefinedFunctions
    \/ close

Spec == Init /\ [][Next]_vars

(***************************************************************************)
(* C2: in every construction, every extension function is registered on the *)
(* handle before any statement is prepared on it.                           *)
(***************************************************************************)
C2_RegisteredBeforePrepare ==
    \A i \in DOMAIN dbLog :
        dbLog[i].op = "prepare" =>
            \A name \in registered :
                \E j \in 1..(i - 1) :
                    /\ dbLog[j].op \in {"function", "aggregate"}
                    /\ dbLog[j].sql = name

(***************************************************************************)
(* C4: the statement of a fetchSelectSchema call is prepared and its        *)
(* columns are read; it is never executed, so its side effects never        *)
(* happen: every effect counted comes from a statement of another method.   *)
(***************************************************************************)
C4_SelectSchemaNeverExecutes ==
    /\ \A i \in DOMAIN dbLog :
          dbLog[i].by = "fetchSelectSchema" => dbLog[i].op \notin ExecOps
    /\ effects = EffectsOf(SelectSeq(dbLog, LAMBDA c : c.by # "fetchSelectSchema"))

C4_Witness ==
    /\ \E i \in DOMAIN dbLog :
          /\ dbLog[i].by = "fetchSelectSchema"
          /\ dbLog[i].op = "columns"
          /\ HasSideEffects(dbLog[i].sql)
    /\ effects = 0

(***************************************************************************)
(* C6: construction yields a connection exactly when the version probe      *)
(* returned a non-empty version that is not below SQLITE_MIN_VERSION (the   *)
(* floor itself passes); otherwise the constructor throws, the probe ran    *)
(* at most once and no method of a connection object runs.                  *)
(***************************************************************************)
\* version a is below version b, component by component as numbers
RECURSIVE C6_Less(_, _)
C6_Less(a, b) ==
    IF a = <<>> \/ b = <<>> THEN a = <<>> /\ b # <<>>
    ELSE IF ParseNat(Head(a)) # ParseNat(Head(b))
    THEN ParseNat(Head(a)) < ParseNat(Head(b))
    ELSE C6_Less(Tail(a), Tail(b))

C6_VersionOk ==
    /\ probe # NotRun
    /\ probe # Undefined
    /\ probe.version # Null
    /\ probe.version # Str("")
    /\ ~C6_Less(Split(probe.version.v, "."), Split(SQLITE_MIN_VERSION_TEXT, "."))

C6_Probes ==
    Cardinality({i \in DOMAIN dbLog :
                    dbLog[i].op = "prepare" /\ dbLog[i].sql = VERSION_SQL})

C6_ConstructsIffVersionOk ==
    connState # "none" =>
        /\ connState \in {"ready", "closed"} <=> C6_VersionOk
        /\ connState = "failed" =>
              /\ error # Null
              /\ methods = 0
              /\ \A i \in DOMAIN dbLog :
                    dbLog[i].by \in {"constructor", "validateMinimumVersion"}
        /\ connState \in {"ready", "closed"} => error = Null
        /\ C6_Probes <= 1

C6_Witness ==
    /\ connState = "ready"
    /\ probe = Row(Str(SQLITE_MIN_VERSION_TEXT))
    /\ C6_Probes = 1

(***************************************************************************)
(* JavaScript regular expressions: the part of RegExp, RegExp.test,         *)
(* String.match and String.replace that the extension functions use.        *)
(* A pattern is compiled to a tree; matching a tree at a place yields the   *)
(* ways it can match there in the order backtracking tries them, each with  *)
(* its end and its captures, and the first is the match.                    *)
(***************************************************************************)
Lit(s) == [node |-> "lit", chars |-> s]
Any == [node |-> "any"]
Class(set) == [node |-> "class", chars |-> set]
Seq2(l, r) == [node |-> "seq", left |-> l, right |-> r]
Alt(l, r) == [node |-> "alt", left |-> l, right |-> r]
Grp(n, e) == [node |-> "grp", group |-> n, item |-> e]
Opt(e) == [node |-> "opt", item |-> e]
Star(e) == [node |-> "star", item |-> e]
LazyStar(e) == [node |-> "lazy", item |-> e]

\* the characters that . does not match (no s flag)
LineTerminators == {"\n", "\r"}

SyntaxError == [k |-> "throw", v |-> "SyntaxError"]

KEY_START == "__STRING_AGG_KS__"
KEY_END == "__STRING_AGG_KE__"

\* new RegExp(pattern): the compiled pattern, for the patterns of this model
RegExp(pattern) ==
    CASE pattern = "" -> [ast |-> Lit(""), ngroups |-> 0]
      [] pattern = "a" -> [ast |-> Lit("a"), ngroups |-> 0]
      [] pattern = "." -> [ast |-> Any, ngroups |-> 0]
      [] pattern = "a*" -> [ast |-> Star(Lit("a")), ngroups |-> 0]
      [] pattern = "(a)" -> [ast |-> Grp(1, Lit("a")), ngroups |-> 1]
      [] pattern = "(a)|(b)" ->
            [ast |-> Alt(Grp(1, Lit("a")), Grp(2, Lit("b"))), ngroups |-> 2]
      [] pattern = "(a)?b" ->
            [ast |-> Seq2(Opt(Grp(1, Lit("a"))), Lit("b")), ngroups |-> 1]
      [] pattern = "(.)(b)" ->
            [ast |-> Seq2(Grp(1, Any), Grp(2, Lit("b"))), ngroups |-> 2]
      [] pattern = KEY_START \o ".*?" \o KEY_END ->
            [ast |-> Seq2(Lit(KEY_START), Seq2(LazyStar(Any), Lit(KEY_END))),
             ngroups |-> 0]
      [] OTHER -> SyntaxError

\* /\\\\(\d)/g
backreferencePattern ==
    [ast |-> Seq2(Lit("\\\\"), Grp(1, Class(DigitChars))), ngroups |-> 1]

At(end, caps) == [end |-> end, caps |-> caps]

\* one character matched by a node that matches single characters
MatchesChar(n, c) ==
    IF n.node = "any" THEN c \notin LineTerminators ELSE c \in n.chars

\* how many characters from place i on such a node matches in a row
RunLength(n, s, i) ==
    LET stops == {j \in i..Len(s) : ~MatchesChar(n, CharAt(s, j))}
    IN  IF stops = {} THEN Len(s) + 1 - i
        ELSE (CHOOSE j \in stops : \A x \in stops : j <= x) - i

RECURSIVE MatchNode(_, _, _, _), MatchThen(_, _, _)

\* the matches of node `n` in `s` at place i, given the captures so far
MatchNode(n, s, i, caps) ==
    CASE n.node = "lit" ->
            IF i + Len(n.chars) - 1 <= Len(s) /\ SubSeq(s, i, i + Len(n.chars) - 1) = n.chars
            THEN <<At(i + Len(n.chars), caps)>> ELSE <<>>
      [] n.node = "any" ->
            IF i <= Len(s) /\ CharAt(s, i) \notin LineTerminators
            THEN <<At(i + 1, caps)>> ELSE <<>>
      [] n.node = "class" ->
            IF i <= Len(s) /\ CharAt(s, i) \in n.chars
            THEN <<At(i + 1, caps)>> ELSE <<>>
      [] n.node = "seq" -> MatchThen(MatchNode(n.left, s, i, caps), n.right, s)
      [] n.node = "alt" -> MatchNode(n.left, s, i, caps) \o MatchNode(n.right, s, i, caps)
      [] n.node = "grp" ->
            LET inner == MatchNode(n.item, s, i, caps)
            IN  [j \in 1..Len(inner) |->
                    At(inner[j].end,
                       [inner[j].caps EXCEPT
                           ![n.group] = Str(SubSeq(s, i, inner[j].end - 1))])]
      [] n.node = "opt" -> MatchNode(n.item, s, i, caps) \o <<At(i, caps)>>
      [] n.node = "star" ->
            IF n.item.node \in {"any", "class"}
            THEN LET k == RunLength(n.item, s, i)
                 IN  [j \in 1..(k + 1) |-> At(i + k + 1 - j, caps)]
            ELSE MatchThen(SelectSeq(MatchNode(n.item, s, i, caps),
                                     LAMBDA m : m.end > i),
                           n, s)
                    \o <<At(i, caps)>>
      [] n.node = "lazy" ->
            IF n.item.node \in {"any", "class"}
            THEN LET k == RunLength(n.item, s, i)
                 IN  [j \in 1..(k + 1) |-> At(i + j - 1, caps)]
            ELSE <<At(i, caps)>>
                    \o MatchThen(SelectSeq(MatchNode(n.item, s, i, caps),
                                           LAMBDA m : m.end > i),
                                 n, s)

\* each of `firsts` continued by node `n`
MatchThen(firsts, n, s) ==
    IF firsts = <<>> THEN <<>>
    ELSE MatchNode(n, s, Head(firsts).end, Head(firsts).caps)
            \o MatchThen(Tail(firsts), n, s)

NoCaptures(re) == [g \in 1..re.ngroups |-> Undefined]

MatchesAt(re, s, i) == MatchNode(re.ast, s, i, NoCaptures(re)) # <<>>

\* RegExp.exec from place `from`: [index, end, caps] of the leftmost match,
\* or Null
Exec(re, s, from) ==
    IF \E i \in from..(Len(s) + 1) : MatchesAt(re, s, i)
    THEN LET i == CHOOSE i \in from..(Len(s) + 1) :
                    /\ MatchesAt(re, s, i)
                    /\ \A j \in from..(i - 1) : ~MatchesAt(re, s, j)
             m == Head(MatchNode(re.ast, s, i, NoCaptures(re)))
         IN  [index |-> i, end |-> m.end, caps |-> m.caps]
    ELSE Null

\* RegExp.test
RegExpTest(re, s) == Exec(re, s, 1) # Null

\* the matches a global replace collects: after an empty match the search
\* goes on one character further
RECURSIVE MatchAll(_, _, _)
MatchAll(re, s, from) ==
    IF from > Len(s) + 1 THEN <<>>
    ELSE LET m == Exec(re, s, from)
         IN  IF m = Null THEN <<>>
             ELSE <<m>> \o MatchAll(re, s, IF m.end = m.index THEN m.end + 1 ELSE m.end)

\* `s` with the text of each of `matches` replaced by the string of `reps`
\* at the same place, the text between the matches kept
RECURSIVE Splice(_, _, _, _)
Splice(s, matches, reps, from) ==
    IF matches = <<>> THEN SubSeq(s, from, Len(s))
    ELSE SubSeq(s, from, Head(matches).index - 1)
            \o Head(reps)
            \o Splice(s, Tail(matches), Tail(reps), Head(matches).end)

\* the decimal digits of a number, as String(n) gives them
RECURSIVE NatToString(_)
NatToString(n) ==
    IF n < 10 THEN CharAt("0123456789", n + 1)
    ELSE NatToString(n \div 10) \o CharAt("0123456789", (n % 10) + 1)

\* what String.replace inserts for a value its callback returned
Inserted(value) ==
    IF value.k = "number" THEN NatToString(value.v) ELSE JsString(value)

(***************************************************************************)
(* The scalar extension functions                                           *)
(***************************************************************************)
Throws(value) == value.k = "throw"

\* a function value, and the global object `crypto` of an environment: not
\* declared, or an object whose randomUUID is a function or is missing
Function == [k |-> "function"]
GlobalCrypto(randomUUID) == [k |-> "object", randomUUID |-> randomUUID]

\* uuid(), in an environment whose global `crypto` is the given value;
\* `generated` is what node_crypto.randomUUID() returns
uuid(crypto, generated) ==
    IF typeof(crypto) = "undefined" \/ typeof(crypto.randomUUID) # "function"
    THEN \* return crypto.randomUUID()
         IF typeof(crypto) = "undefined"
         THEN [k |-> "throw", v |-> "ReferenceError: crypto is not defined"]
         ELSE [k |-> "throw", v |-> "TypeError: crypto.randomUUID is not a function"]
    ELSE Str(generated)

\* regexp_contains(input, pattern)
regexp_contains(input, pattern) ==
    IF isNullOrUndefined(input) \/ isNullOrUndefined(pattern) THEN Null
    ELSE LET regex == RegExp(pattern.v)
         IN  IF regex = SyntaxError THEN SyntaxError
             ELSE IF RegExpTest(regex, input.v) THEN Num(1) ELSE Num(0)

\* regexp_extract(input, pattern)
regexp_extract(input, pattern) ==
    IF isNullOrUndefined(input) \/ isNullOrUndefined(pattern) THEN Null
    ELSE LET regex == RegExp(pattern.v)
         IN  IF regex = SyntaxError THEN SyntaxError
             ELSE LET matches == Exec(regex, input.v, 1)
                  IN  IF matches = Null THEN Null
                      ELSE Str(SubSeq(input.v, matches.index, matches.end - 1))

\* the arguments (match, ...groups) String.replace hands its callback for
\* match m of `input`: groups holds the captures, the offset and the input
ReplaceGroups(input, m) ==
    m.caps \o <<Num(m.index - 1), Str(input)>>

\* groups[i], with i counted from 0
GroupAt(groups, i) ==
    IF i + 1 \in DOMAIN groups THEN groups[i + 1] ELSE Undefined

\* the inner callback with the index off by one: groups[index]
BackrefValue_OffByOne(match, groups, n) ==
    LET index == DigitVal(n)
    IN  IF index = 0 THEN Str(match) ELSE Coalesce(GroupAt(groups, index), Str(""))

\* (_, n) => { index = parseInt(n); index === 0 ? match : groups[index - 1] ?? '' }
BackrefValue(match, groups, n) ==
    LET index == DigitVal(n)
    IN  IF index = 0 THEN Str(match) ELSE Coalesce(GroupAt(groups, index - 1), Str(""))

\* replacement.replace(backreferencePattern, (_, n) => ...)
ExpandBackrefs(replacement, match, groups) ==
    LET refs == MatchAll(backreferencePattern, replacement, 1)
    IN  Splice(replacement, refs,
               [j \in 1..Len(refs) |->
                   Inserted(BackrefValue(match, groups, refs[j].caps[1].v))],
               1)

\* regexp_replace(input, pattern, replacement)
regexp_replace(input, pattern, replacement) ==
    IF \/ isNullOrUndefined(input)
       \/ isNullOrUndefined(pattern)
       \/ isNullOrUndefined(replacement)
    THEN Null
    ELSE LET backReferencesMode == RegExpTest(backreferencePattern, replacement.v)
             regex == RegExp(pattern.v)
         IN  IF regex = SyntaxError THEN SyntaxError
             ELSE LET ms == MatchAll(regex, input.v, 1)
                  IN  Str(Splice(input.v, ms,
                        [j \in 1..Len(ms) |->
                            IF ~backReferencesMode THEN replacement.v
                            ELSE ExpandBackrefs(
                                    replacement.v,
                                    SubSeq(input.v, ms[j].index, ms[j].end - 1),
                                    ReplaceGroups(input.v, ms[j]))],
                        1))

\* String.prototype.repeat
RECURSIVE Repeat(_, _)
Repeat(s, count) ==
    IF count = 0 THEN "" ELSE s \o Repeat(s, count - 1)

\* string_repeat with the test of count taking 0 as well
string_repeat_ZeroIsNull(input, count) ==
    IF isNullOrUndefined(input) \/ isNullOrUndefined(count) THEN Null
    ELSE IF count.v <= 0 THEN Null
    ELSE Str(Repeat(input.v, count.v))

\* string_repeat without the test of count: repeat takes null as 0
string_repeat_CountUnchecked(input, count) ==
    IF isNullOrUndefined(input) THEN Null
    ELSE LET n == IF isNullOrUndefined(count) THEN 0 ELSE count.v
         IN  IF n < 0 THEN Null ELSE Str(Repeat(input.v, n))

\* string_repeat(input, count)
string_repeat(input, count) ==
    IF isNullOrUndefined(input) \/ isNullOrUndefined(count) THEN Null
    ELSE IF count.v < 0 THEN Null
    ELSE Str(Repeat(input.v, count.v))

\* A string is the sequence of its UTF-16 code units; "H" stands for a high
\* surrogate and "L" for a low surrogate, every other character for a code
\* unit that is a code point of its own.
HighSurrogates == {"H"}
LowSurrogates == {"L"}

\* Array.from(input): the string cut into code points; a surrogate that is
\* not part of a pair is an element of its own
RECURSIVE ArrayFrom(_)
ArrayFrom(s) ==
    IF s = "" THEN <<>>
    ELSE IF /\ Len(s) >= 2
            /\ CharAt(s, 1) \in HighSurrogates
            /\ CharAt(s, 2) \in LowSurrogates
    THEN <<Str(SubSeq(s, 1, 2))>> \o ArrayFrom(SubSeq(s, 3, Len(s)))
    ELSE <<Str(CharAt(s, 1))>> \o ArrayFrom(SubSeq(s, 2, Len(s)))

\* Array.prototype.reverse
ArrayReverse(arr) ==
    [i \in 1..Len(arr) |-> arr[Len(arr) + 1 - i]]

\* the reversal made code unit by code unit
reverse_ByCodeUnit(input) ==
    IF isNullOrUndefined(input) THEN Null
    ELSE Str(Join(ArrayReverse([i \in 1..Len(input.v) |-> Str(CharAt(input.v, i))]), ""))

\* reverse(input)
reverse(input) ==
    IF isNullOrUndefined(input) THEN Null
    ELSE Str(Join(ArrayReverse(ArrayFrom(input.v)), ""))

(***************************************************************************)
(* SQLite calling the scalar extension functions                            *)
(***************************************************************************)
UdfStrings == {"", "a", "b", "ab", "ba", "aab", "a\nb"}
UdfPatterns == {"", "a", ".", "a*", "(a)", "(a)|(b)", "(a)?b", "(.)(b)", "("}
UdfReplacements ==
    {"", "x", "$&", "\\1", "\\\\0", "\\\\1", "\\\\2", "[\\\\1\\\\2]", "\\\\3"}

JsValues(strings) == {Null, Undefined} \cup {Str(x) : x \in strings}

Returns(fn, args, value) ==
    /\ call' = [fn |-> fn, args |-> args]
    /\ ret' = value
    /\ UNCHANGED <<aggVars, connVars, queryVars, invVars>>

CryptoEnvironments ==
    {Undefined, GlobalCrypto(Undefined), GlobalCrypto(Function)}
GeneratedUUIDs ==
    {"123e4567-e89b-42d3-a456-426614174000", "9b2f0c1e-7d4a-4f6b-8c3d-5e6f7a8b9c0d"}

\* SQLite calling udf_uuid; the environment is written where the arguments
\* of the other functions are
Call_uuid ==
    \E crypto \in CryptoEnvironments, generated \in GeneratedUUIDs :
        Returns("uuid", <<crypto>>, uuid(crypto, generated))

Call_regexp_contains ==
    \E input \in JsValues(UdfStrings), pattern \in JsValues(UdfPatterns) :
        Returns("regexp_contains", <<input, pattern>>,
                regexp_contains(input, pattern))

Call_regexp_extract ==
    \E input \in JsValues(UdfStrings), pattern \in JsValues(UdfPatterns) :
        Returns("regexp_extract", <<input, pattern>>,
                regexp_extract(input, pattern))

Call_regexp_replace ==
    \E input \in JsValues(UdfStrings), pattern \in JsValues(UdfPatterns),
       replacement \in JsValues(UdfReplacements) :
        Returns("regexp_replace", <<input, pattern, replacement>>,
                regexp_replace(input, pattern, replacement))

RepeatCounts == {Num(n) : n \in -2..3}
\* SQLite hands a function its text decoded from UTF-8, in which every
\* surrogate is one half of a pair
ReverseStrings == {"", "a", "ab", "aab", "HL", "aHLb", "HLHL", "HLaHL", "abHL"}

Call_string_repeat ==
    \E input \in JsValues(UdfStrings), count \in RepeatCounts \cup {Null, Undefined} :
        Returns("string_repeat", <<input, count>>, string_repeat(input, count))

Call_reverse ==
    \E input \in JsValues(ReverseStrings) :
        Returns("reverse", <<input>>, reverse(input))

UdfNext ==
    \/ Call_uuid
    \/ Call_regexp_contains
    \/ Call_regexp_extract
    \/ Call_regexp_replace
    \/ Call_string_repeat
    \/ Call_reverse

SpecUdf == Init /\ [][UdfNext]_vars

(***************************************************************************)
(* C10: regexp_contains returns null, and does not throw, whenever input or *)
(* pattern is null, undefined or the empty string; it returns 1 or 0 only   *)
(* when both are non-empty.                                                 *)
(***************************************************************************)
C10_Empty(value) == isNullOrUndefined(value) \/ value = Str("")

C10_NullOnEmptyArgument ==
    call.fn = "regexp_contains" =>
        /\ (C10_Empty(call.args[1]) \/ C10_Empty(call.args[2])) => ret = Null
        /\ ret \in {Num(0), Num(1)} =>
              ~C10_Empty(call.args[1]) /\ ~C10_Empty(call.args[2])

(***************************************************************************)
(* C7: regexp_replace with non-null arguments replaces every match of the   *)
(* pattern: by the replacement as it stands when it holds no backreference  *)
(* token (two backslashes and a digit, as the function receives them), and  *)
(* otherwise by the replacement with each token of digit 0 turned into the  *)
(* whole match and each token of digit 1..9 into the text of that capture   *)
(* group, or into nothing if the group took no part in the match.           *)
(***************************************************************************)
C7_TokenAt(replacement, i) ==
    /\ i + 2 <= Len(replacement)
    /\ CharAt(replacement, i) = "\\"
    /\ CharAt(replacement, i + 1) = "\\"
    /\ CharAt(replacement, i + 2) \in DigitChars

C7_Digits(replacement) ==
    {DigitVal(CharAt(replacement, i + 2)) :
        i \in {j \in 1..Len(replacement) : C7_TokenAt(replacement, j)}}

\* the replacement for match m of `input`, read from place i on
RECURSIVE C7_Expand(_, _, _, _)
C7_Expand(replacement, input, m, i) ==
    IF i > Len(replacement) THEN ""
    ELSE IF C7_TokenAt(replacement, i)
    THEN LET d == DigitVal(CharAt(replacement, i + 2))
         IN  (IF d = 0 THEN SubSeq(input, m.index, m.end - 1)
              ELSE IF m.caps[d] = Undefined THEN ""
              ELSE m.caps[d].v)
                \o C7_Expand(replacement, input, m, i + 3)
    ELSE CharAt(replacement, i) \o C7_Expand(replacement, input, m, i + 1)

C7_Expected(input, pattern, replacement) ==
    LET ms == MatchAll(RegExp(pattern), input, 1)
    IN  Splice(input, ms,
               [j \in 1..Len(ms) |->
                   IF C7_Digits(replacement) = {} THEN replacement
                   ELSE C7_Expand(replacement, input, ms[j], 1)],
               1)

sqlStringAggDistinct(distinctKey, valueSQL, separatorSQL) ==
    LET keyStart == KEY_START
        keyEnd == KEY_END
        distinctValueSQL ==
            "concat('" \o keyStart \o "', " \o distinctKey \o ", '" \o keyEnd
                \o "', " \o valueSQL \o ")"
    IN  "UDF_REGEXP_REPLACE(\n      UDF_SET_CONCAT(" \o distinctValueSQL
            \o (IF Len(separatorSQL) > 0 THEN "," \o separatorSQL ELSE "")
            \o "),\n      '" \o keyStart \o ".*?" \o keyEnd \o "',\n      ''\n    )"

\* the value of a quoted SQL string literal without quotes inside
SqlLiteralValue(sql) == SubSeq(sql, 2, Len(sql) - 1)

\* SQLite's concat(...) of text arguments
RECURSIVE SqlConcat(_)
SqlConcat(args) ==
    IF args = <<>> THEN "" ELSE Head(args) \o SqlConcat(Tail(args))

\* the arguments SQLite hands udf_set_concat for one row of the query
StringAggStepArgs(q, key, value) ==
    <<Str(SqlConcat(<<KEY_START, key, KEY_END, value>>))>>
        \o (IF Len(q.separatorSQL) > 0
            THEN <<Str(SqlLiteralValue(q.separatorSQL))>> ELSE <<>>)

\* the arguments SQLite hands udf_regexp_replace for the aggregate's result
StringAggReplaceArgs(a) ==
    <<Str(set_concat_result(a)), Str(KEY_START \o ".*?" \o KEY_END), Str("")>>

(***************************************************************************)
(* SQLite evaluating the text of sqlStringAggDistinct over the rows of one  *)
(* group: udf_set_concat steps over the rows, and udf_regexp_replace is     *)
(* applied to its result.                                                   *)
(***************************************************************************)
MaxRows == 3

StringAggKeys == {"1", "2", "k\n"}
StringAggValues == {"x", "y"}
StringAggSeparators == {"", "';'"}

StringAggInit ==
    /\ \E separatorSQL \in StringAggSeparators :
          query = [sql |-> sqlStringAggDistinct("k", "v", separatorSQL),
                   distinctKey |-> "k", valueSQL |-> "v",
                   separatorSQL |-> separatorSQL]
    /\ rows = <<>>
    /\ acc = set_concat_start
    /\ steps = [v \in AggValues |-> 0]
    /\ inverses = [v \in AggValues |-> 0]
    /\ matched = TRUE
    /\ aggOut = Null
    /\ ConnIdle
    /\ CallIdle
    /\ InvIdle

StringAggRow ==
    \E key \in StringAggKeys, value \in StringAggValues :
        /\ Len(rows) < MaxRows
        /\ LET args == StringAggStepArgs(query, key, value)
           IN  acc' = set_concat_step(acc, Head(args), Tail(args))
        /\ rows' = Append(rows, <<key, value>>)
        /\ UNCHANGED <<query, steps, inverses, matched, aggOut, connVars, callVars,
                       invVars>>

StringAggFinal ==
    /\ aggOut' = Str(set_concat_result(acc))
    /\ LET args == StringAggReplaceArgs(acc)
       IN  /\ call' = [fn |-> "regexp_replace", args |-> args]
           /\ ret' = regexp_replace(args[1], args[2], args[3])
    /\ UNCHANGED <<acc, steps, inverses, matched, connVars, queryVars, invVars>>

StringAggNext == StringAggRow \/ StringAggFinal

SpecStringAgg == StringAggInit /\ [][StringAggNext]_vars

(***************************************************************************)
(* C9: sqlStringAggDistinct emits UDF_REGEXP_REPLACE(UDF_SET_CONCAT(         *)
(* concat(KS, key, KE, value)[, separator]), 'KS.*?KE', '') with the fixed  *)
(* sentinels, and evaluated over rows that hold no sentinel it yields the   *)
(* values joined by the separator, one for each distinct (key, value) pair, *)
(* with no sentinel or key text left in the output.                         *)
(***************************************************************************)
\* text without its blanks and line breaks
RECURSIVE C9_NoSpace(_)
C9_NoSpace(text) ==
    IF Len(text) = 0 THEN ""
    ELSE IF Len(text) = 1 THEN (IF text \in {" ", "\n"} THEN "" ELSE text)
    ELSE LET half == Len(text) \div 2
         IN  C9_NoSpace(SubSeq(text, 1, half))
                \o C9_NoSpace(SubSeq(text, half + 1, Len(text)))

C9_Text(q) ==
    "UDF_REGEXP_REPLACE(UDF_SET_CONCAT(concat('__STRING_AGG_KS__',"
        \o q.distinctKey \o ",'__STRING_AGG_KE__'," \o q.valueSQL \o ")"
        \o (IF q.separatorSQL = "" THEN "" ELSE "," \o q.separatorSQL)
        \o "),'__STRING_AGG_KS__.*?__STRING_AGG_KE__','')"

C9_Pairs == {rows[i] : i \in DOMAIN rows}

C9_Separator ==
    IF query.separatorSQL = "" THEN "," ELSE SqlLiteralValue(query.separatorSQL)

C9_OnePerDistinctPair ==
    query # Null =>
        /\ C9_NoSpace(query.sql) = C9_Text(query)
        /\ (call.fn = "regexp_replace" /\ aggOut = Str(set_concat_result(acc))) =>
              /\ ret.k = "string"
              /\ LET pieces == IF ret.v = "" THEN <<>>
                               ELSE Split(ret.v, C9_Separator)
                 IN  /\ Len(pieces) = Cardinality(C9_Pairs)
                     /\ \A v \in StringAggValues :
                           Cardinality({i \in DOMAIN pieces : pieces[i] = v})
                              = Cardinality({p \in C9_Pairs : p[2] = v})

(***************************************************************************)
(* SqliteDialect: native type names                                         *)
(***************************************************************************)
LowerLetters == "abcdefghijklmnopqrstuvwxyz"
UpperLetters == "ABCDEFGHIJKLMNOPQRSTUVWXYZ"

\* the characters \w matches
WordChars ==
    {CharAt(LowerLetters, i) : i \in 1..26}
        \cup {CharAt(UpperLetters, i) : i \in 1..26}
        \cup DigitChars \cup {"_"}

LowerChar(c) ==
    IF IndexOf(UpperLetters, c) = 0 THEN c
    ELSE CharAt(LowerLetters, IndexOf(UpperLetters, c))

UpperChar(c) ==
    IF IndexOf(LowerLetters, c) = 0 THEN c
    ELSE CharAt(UpperLetters, IndexOf(LowerLetters, c))

\* String.prototype.toLocaleLowerCase, in a locale with the default mapping
RECURSIVE toLocaleLowerCase(_)
toLocaleLowerCase(s) ==
    IF s = "" THEN ""
    ELSE LowerChar(CharAt(s, 1)) \o toLocaleLowerCase(SubSeq(s, 2, Len(s)))

\* String.prototype.toUpperCase
RECURSIVE toUpperCase(_)
toUpperCase(s) ==
    IF s = "" THEN ""
    ELSE UpperChar(CharAt(s, 1)) \o toUpperCase(SubSeq(s, 2, Len(s)))

\* the length of the match of /^(\w+)/ on s, 0 when it does not match
LeadingWordLength(s) ==
    IF \E n \in 1..Len(s) : CharAt(s, n) \notin WordChars
    THEN (CHOOSE n \in 1..Len(s) :
            /\ CharAt(s, n) \notin WordChars
            /\ \A j \in 1..(n - 1) : CharAt(s, j) \in WordChars) - 1
    ELSE Len(s)

StringType == [type |-> "string"]
IntegerType == [type |-> "number", numberType |-> "integer"]
FloatType == [type |-> "number", numberType |-> "float"]
TimestampType == [type |-> "timestamp"]
DateType == [type |-> "date"]
BooleanType == [type |-> "boolean"]

\* the entries of sqliteToMallyTypes, as <<key, type>>
sqliteToMallyTypes ==
    << <<"text", StringType>>,
       <<"integer", IntegerType>>,
       <<"real", FloatType>>,
       <<"numeric", FloatType>>,
       <<"int", IntegerType>>,
       <<"bigint", IntegerType>>,
       <<"tinyint", IntegerType>>,
       <<"smallint", IntegerType>>,
       <<"mediumint", IntegerType>>,
       <<"int2", IntegerType>>,
       <<"int8", IntegerType>>,
       <<"unsigned big int", IntegerType>>,
       <<"float", FloatType>>,
       <<"double", FloatType>>,
       <<"double precision", FloatType>>,
       <<"decimal", FloatType>>,
       <<"varchar", StringType>>,
       <<"nvarchar", StringType>>,
       <<"nchar", StringType>>,
       <<"clob", StringType>>,
       <<"native character", StringType>>,
       <<"varying character", StringType>>,
       <<"datetime", TimestampType>>,
       <<"date", DateType>>,
       <<"boolean", BooleanType>> >>

\* the properties a plain object inherits that a lower-case word can name
ObjectPrototypeKeys == {"constructor", "__proto__"}
Inherited(key) == [k |-> "object", v |-> key]

\* sqliteToMallyTypes[key]
TypeTableGet(key) ==
    IF \E i \in DOMAIN sqliteToMallyTypes : sqliteToMallyTypes[i][1] = key
    THEN sqliteToMallyTypes[CHOOSE i \in DOMAIN sqliteToMallyTypes :
                                sqliteToMallyTypes[i][1] = key][2]
    ELSE IF key \in ObjectPrototypeKeys THEN Inherited(key)
    ELSE Undefined

\* sqlTypeToMalloyType(sqlType)
sqlTypeToMalloyType(sqlType) ==
    LET n == LeadingWordLength(sqlType)
        baseSqlType == IF n = 0 THEN sqlType ELSE SubSeq(sqlType, 1, n)
        mappedType == TypeTableGet(toLocaleLowerCase(baseSqlType))
    IN  IF mappedType # Undefined THEN mappedType
        ELSE [type |-> "sql native", rawType |-> sqlType]

(***************************************************************************)
(* SqliteDialect and its function catalog: the SQL text they emit           *)
(***************************************************************************)
\* sqlGenerateUUID()
sqlGenerateUUID == "UDF_UUID()"

\* sqlRegexpMatch(match), from the SQL of the two operands
sqlRegexpMatch(expr, regex) ==
    "UDF_REGEXP_CONTAINS(" \o expr \o ", " \o regex \o ")"

\* sqlSumDistinct(key, value, funcName)
sqlSumDistinct(key, value, funcName) ==
    "UDF_" \o funcName \o "_DISTINCT_PAIRS(" \o key \o ", " \o value \o ")"

\* SQLITE_MALLOY_STANDARD_OVERLOADS.regexp_extract, its parameters filled in
regexp_extract_sql(value, pattern) ==
    "UDF_REGEXP_EXTRACT(" \o value \o ", " \o pattern \o ")"

\* SQLITE_MALLOY_STANDARD_OVERLOADS.replace.regular_expression
replace_regular_expression_sql(value, pattern, replacement) ==
    "UDF_REGEXP_REPLACE(" \o value \o ", " \o pattern \o ", " \o replacement \o ")"

\* SQLITE_MALLOY_STANDARD_OVERLOADS.string_repeat
string_repeat_sql(value, count) ==
    "UDF_STRING_REPEAT(" \o value \o ", " \o count \o ")"

\* SQLITE_MALLOY_STANDARD_OVERLOADS.strpos, which needs no extension function
strpos_sql(test_string, search_string) ==
    "INSTR(" \o test_string \o ", " \o search_string \o ")"

\* SQLITE_DIALECT_FUNCTIONS.reverse
string_reverse_sql(str) ==
    "UDF_REVERSE(CAST(" \o str \o " AS VARCHAR))"

\* SQLITE_DIALECT_FUNCTIONS.string_agg_distinct; an empty separator stands
\* for the default_separator overload
string_agg_distinct_sql(value, order_by, separator) ==
    "UDF_SET_CONCAT(" \o value \o " " \o order_by \o ", "
        \o (IF separator = "" THEN "','" ELSE separator) \o ")"

\* the places in `sql` where an identifier with the udfPrefix starts
UdfStarts(sql) ==
    {i \in 1..(Len(sql) - 3) :
        /\ SubSeq(sql, i, i + 3) = "UDF_"
        /\ (i = 1 \/ CharAt(sql, i - 1) \notin WordChars)}

\* the extension functions the SQL text calls, as SQLite looks them up:
\* function names are not case sensitive
UdfNamesIn(sql) ==
    {toLocaleLowerCase(
        SubSeq(sql, i, i - 1 + LeadingWordLength(SubSeq(sql, i, Len(sql))))) :
        i \in UdfStarts(sql)}

(***************************************************************************)
(* SqliteDialect: string literals                                           *)
(***************************************************************************)
\* String.prototype.replace(/c/g, by) for a pattern of one character c
RECURSIVE ReplaceChar(_, _, _)
ReplaceChar(s, c, by) ==
    IF s = "" THEN ""
    ELSE (IF CharAt(s, 1) = c THEN by ELSE CharAt(s, 1))
            \o ReplaceChar(SubSeq(s, 2, Len(s)), c, by)

\* sqlLiteralString(literal)
sqlLiteralString(literal) ==
    LET noVirgule == ReplaceChar(literal, "\\", "\\\\")
    IN  "'" \o ReplaceChar(noVirgule, "'", "\\'") \o "'"

\* sqlLiteralRegexp(literal)
sqlLiteralRegexp(literal) ==
    LET noVirgule == ReplaceChar(literal, "\\", "\\\\")
    IN  "'" \o ReplaceChar(noVirgule, "'", "\\'") \o "'"

(***************************************************************************)
(* SqliteDialect: time literals                                             *)
(***************************************************************************)
Error(message) == [k |-> "throw", v |-> message]

\* TD.isDate(typeDef)
isDate(typeDef) == typeDef.type = "date"

\* qtz(qi): the timezone of the query, if it has one
qtz(qi) == qi.queryTimezone

\* the truthiness of a string or undefined
Truthy(value) == ~isNullOrUndefined(value) /\ value # Str("")

\* only the literal's own timezone is looked at
sqlLiteralTime_IgnoresQueryTimezone(qi, lit) ==
    IF isDate(lit.typeDef) THEN Str("DATE('" \o lit.literal \o "')")
    ELSE IF Truthy(lit.timezone) THEN Error("Timezone not supported in SQLite")
    ELSE Str("DATETIME('" \o lit.literal \o "')")

\* sqlLiteralTime(qi, lit)
sqlLiteralTime(qi, lit) ==
    IF isDate(lit.typeDef) THEN Str("DATE('" \o lit.literal \o "')")
    ELSE LET tz == IF Truthy(lit.timezone) THEN lit.timezone ELSE qtz(qi)
         IN  IF Truthy(tz) THEN Error("Timezone not supported in SQLite")
             ELSE Str("DATETIME('" \o lit.literal \o "')")

(***************************************************************************)
(* SqliteDialect: table paths                                               *)
(***************************************************************************)
\* String.prototype.lastIndexOf, from 1; 0 when `c` does not occur
LastIndexOf(s, c) ==
    IF \E i \in 1..Len(s) : CharAt(s, i) = c
    THEN CHOOSE i \in 1..Len(s) :
            CharAt(s, i) = c /\ \A j \in (i + 1)..Len(s) : CharAt(s, j) # c
    ELSE 0

\* the path split at its last '.'
splitPath_AtLastDot(str) ==
    LET index == LastIndexOf(str, ".")
    IN  IF index # 0
        THEN [db |-> SubSeq(str, 1, index - 1),
              table |-> SubSeq(str, index + 1, Len(str))]
        ELSE [table |-> str]

\* splitPath(str)
splitPath(str) ==
    LET index == IndexOf(str, ".")
    IN  IF index = 0 THEN [table |-> str]
        ELSE [db |-> SubSeq(str, 1, index - 1),
              table |-> SubSeq(str, index + 1, Len(str))]

(***************************************************************************)
(* The function catalog: rounding.  A number is a decimal, digits * 10 to   *)
(* the power -scale, which holds every value that occurs exactly.           *)
(***************************************************************************)
Dec(digits, scale) == [digits |-> digits, scale |-> scale]

Abs(n) == IF n < 0 THEN -n ELSE n

\* POWER(10, k) for k >= 0
SqlPower10(k) == Dec(10^k, 0)

\* x / y where y is a power of ten; POWER yields a REAL, so nothing is cut off
SqlDivide(x, y) ==
    Dec(x.digits, x.scale + (CHOOSE k \in 0..9 : 10^k = y.digits))

\* x * y
SqlMultiply(x, y) == Dec(x.digits * y.digits, x.scale + y.scale)

\* ROUND(x, places): to `places` digits after the point, a half away from
\* zero; negative places count as 0
SqlRound(x, places) ==
    LET p == IF places < 0 THEN 0 ELSE places
    IN  IF x.scale <= p THEN x
        ELSE LET unit == 10^(x.scale - p)
                 halfUp == (2 * Abs(x.digits) + unit) \div (2 * unit)
             IN  Dec(IF x.digits < 0 THEN -halfUp ELSE halfUp, p)

\* the override with the two branches of its IF changed over
roundWithNegativePrecisionSQL_BranchesSwapped(value, precision) ==
    IF precision < 0
    THEN SqlRound(value, precision)
    ELSE SqlMultiply(SqlRound(SqlDivide(value, SqlPower10(Abs(precision))), 0),
                     SqlPower10(Abs(precision)))

\* roundWithNegativePrecisionSQL(): the value of the expression
\* IF(p < 0, ROUND(v / POWER(10, ABS(p))) * POWER(10, ABS(p)), ROUND(v, p))
roundWithNegativePrecisionSQL(value, precision) ==
    IF precision < 0
    THEN SqlMultiply(SqlRound(SqlDivide(value, SqlPower10(Abs(precision))), 0),
                     SqlPower10(Abs(precision)))
    ELSE SqlRound(value, precision)

(***************************************************************************)
(* The function catalog: chr.  The value of a SQL text is the sequence of   *)
(* its code points.                                                         *)
(***************************************************************************)
SqlText(codePoints) == [k |-> "text", v |-> codePoints]

\* IF(condition, x, y), with a number as condition: x if it is not zero
SqlIf(condition, x, y) == IF condition # 0 THEN x ELSE y

\* CHAR(n): the text of the one code point n, U+FFFD if n is none
SqlChar(n) == SqlText(IF n < 0 \/ n > 1114111 THEN <<65533>> ELSE <<n>>)

\* SQLITE_MALLOY_STANDARD_OVERLOADS.chr: the value of IF(value, '', CHAR(value))
chr(value) == SqlIf(value, SqlText(<<>>), SqlChar(value))

(***************************************************************************)
(* The function catalog: starts_with and ends_with                          *)
(***************************************************************************)
\* the place of the first ']' of the pattern at or after place i, 0 if none
GlobClassEnd(pattern, i) ==
    IF \E j \in i..Len(pattern) : CharAt(pattern, j) = "]"
    THEN CHOOSE j \in i..Len(pattern) :
            /\ CharAt(pattern, j) = "]"
            /\ \A h \in i..(j - 1) : CharAt(pattern, h) # "]"
    ELSE 0

\* GLOB(pattern, string): '*' is any run of characters, '?' any character,
\* '[...]' a character of the set (of none of it after '^'; a ']' that comes
\* first is a member), every other character itself; a set that is not
\* closed matches nothing.  Case is significant.
RECURSIVE SqlGlob(_, _)
SqlGlob(pattern, string) ==
    IF pattern = "" THEN string = ""
    ELSE LET c == CharAt(pattern, 1)
             rest == SubSeq(pattern, 2, Len(pattern))
             tail == SubSeq(string, 2, Len(string))
         IN  IF c = "*"
             THEN \E k \in 0..Len(string) :
                      SqlGlob(rest, SubSeq(string, k + 1, Len(string)))
             ELSE IF string = "" THEN FALSE
             ELSE IF c = "?" THEN SqlGlob(rest, tail)
             ELSE IF c = "["
             THEN LET negated == Len(pattern) >= 2 /\ CharAt(pattern, 2) = "^"
                      first == IF negated THEN 3 ELSE 2
                      closing == GlobClassEnd(pattern, first + 1)
                      members == {CharAt(pattern, j) : j \in first..(closing - 1)}
                  IN  /\ closing # 0
                      /\ (CharAt(string, 1) \in members) # negated
                      /\ SqlGlob(SubSeq(pattern, closing + 1, Len(pattern)), tail)
             ELSE CharAt(string, 1) = c /\ SqlGlob(rest, tail)

\* IFNULL(x, y)
SqlIfNull(x, y) == IF x = Null THEN y ELSE x

\* GLOB of SQL values: NULL if an argument is NULL, else 1 or 0
SqlGlobValue(pattern, string) ==
    IF pattern = Null \/ string = Null THEN Null
    ELSE IF SqlGlob(pattern.v, string.v) THEN Num(1) ELSE Num(0)

\* CONCAT(x, y) of SQL values: a NULL argument counts as ''
SqlConcatValues(x, y) ==
    Str(SqlConcat(<<IF x = Null THEN "" ELSE x.v, IF y = Null THEN "" ELSE y.v>>))

\* SQLITE_MALLOY_STANDARD_OVERLOADS.ends_with: the value of
\* IF(suffix IS NULL, 0, IFNULL(GLOB(CONCAT('*', suffix), value), 0))
ends_with(value, suffix) ==
    IF suffix = Null THEN Num(0)
    ELSE SqlIfNull(SqlGlobValue(SqlConcatValues(Str("*"), suffix), value), Num(0))

\* SQLITE_MALLOY_STANDARD_OVERLOADS.starts_with: the value of
\* IF(prefix IS NULL, 0, IFNULL(GLOB(CONCAT(prefix, '*'), value), 0))
starts_with(value, prefix) ==
    IF prefix = Null THEN Num(0)
    ELSE SqlIfNull(SqlGlobValue(SqlConcatValues(prefix, Str("*")), value), Num(0))

(***************************************************************************)
(* SqliteDialect: the group set table                                       *)
(***************************************************************************)
\* Array(groupSetCount) in place of Array(groupSetCount + 1)
sqlGroupSetTable_OneRowShort(groupSetCount) ==
    LET valueList ==
            Join([i \in 1..groupSetCount |-> Str("(" \o NatToString(i - 1) \o ")")],
                 ", ")
    IN  "CROSS JOIN (SELECT column1 as group_set FROM (VALUES " \o valueList \o "))"

\* sqlGroupSetTable(groupSetCount); element i of the array has index i - 1
sqlGroupSetTable(groupSetCount) ==
    LET valueList ==
            Join([i \in 1..(groupSetCount + 1) |->
                     Str("(" \o NatToString(i - 1) \o ")")], ", ")
    IN  "CROSS JOIN (SELECT column1 as group_set FROM (VALUES " \o valueList \o "))"

(***************************************************************************)
(* SqliteDialect: time extraction                                           *)
(***************************************************************************)
\* makeStrfTimeCast(format)(from)
makeStrfTimeCast(format, from) ==
    "CAST(strftime('" \o format \o "', " \o from \o ") as INTEGER)"

\* the units of sqliteTimeExtractMap that go through makeStrfTimeCast, each
\* with its strftime format
StrfTimeFormats ==
    << <<"day", "%d">>, <<"hour", "%H">>, <<"minute", "%M">>, <<"month", "%m">>,
       <<"second", "%S">>, <<"week", "%W">>, <<"year", "%Y">>,
       <<"day_of_week", "%u">>, <<"day_of_year", "%j">> >>

ExtractUnits ==
    {StrfTimeFormats[i][1] : i \in DOMAIN StrfTimeFormats} \cup {"quarter"}

\* sqliteTimeExtractMap[units](from)
sqliteTimeExtractMap(units, from) ==
    IF units = "quarter"
    THEN "((CAST(strftime('%m', " \o from \o ") as INTEGER) - 1) / 3) + 1"
    ELSE makeStrfTimeCast(
             StrfTimeFormats[CHOOSE i \in DOMAIN StrfTimeFormats :
                                 StrfTimeFormats[i][1] = units][2], from)

\* sqlTimeExtractExpr(qi, from)
sqlTimeExtractExpr(qi, from) ==
    IF from.units \notin ExtractUnits
    THEN Error("Unsupported time extract unit " \o from.units)
    ELSE IF from.e.sql = ""
    THEN Error("Unsupported time extract expression [object Object]")
    ELSE Str(sqliteTimeExtractMap(from.units, from.e.sql))

\* SQLite's strftime for the formats of two digits: a time is the record of
\* its month and its day of the month
strftime(format, time) ==
    LET n == IF format = "%m" THEN time.month ELSE time.day
    IN  NatToString(n \div 10) \o NatToString(n % 10)

\* CAST(text AS INTEGER) of a text of digits
RECURSIVE SqlCastInteger(_)
SqlCastInteger(text) ==
    IF text = "" THEN 0
    ELSE 10 * SqlCastInteger(SubSeq(text, 1, Len(text) - 1))
            + DigitVal(CharAt(text, Len(text)))

\* x / y of two INTEGER operands: SQLite divides integers and cuts the
\* quotient off toward zero
SqlIntegerDivide(x, y) ==
    IF (x < 0) = (y < 0) THEN Abs(x) \div Abs(y) ELSE -(Abs(x) \div Abs(y))

\* the month is divided as it stands
ExtractQuarter_MonthNotOffset(time) ==
    SqlIntegerDivide(SqlCastInteger(strftime("%m", time)), 3) + 1

\* the value of ((CAST(strftime('%m', from) as INTEGER) - 1) / 3) + 1
ExtractQuarter(time) ==
    SqlIntegerDivide(SqlCastInteger(strftime("%m", time)) - 1, 3) + 1

\* the value of CAST(strftime('%m', from) as INTEGER)
ExtractMonth(time) == SqlCastInteger(strftime("%m", time))

\* the value of CAST(strftime('%d', from) as INTEGER)
ExtractDay(time) == SqlCastInteger(strftime("%d", time))

(***************************************************************************)
(* The translator calling the dialect and expanding the catalog's entries   *)
(***************************************************************************)
\* the SQL of an operand: a column, a literal, a call already emitted
SqlOperands == {"x", "'a'", "UDF_UUID()"}
SumDistinctFuncNames == {"SUM", "AVG"}

LetterCases == {"lower", "upper", "capital"}
TypeModifiers == {"", "(255)", "(38,9)"}
TypeKeys == {sqliteToMallyTypes[i][1] : i \in DOMAIN sqliteToMallyTypes}

\* a type name as a column declaration may spell it
InCase(name, case) ==
    IF case = "lower" THEN name
    ELSE IF case = "upper" THEN toUpperCase(name)
    ELSE UpperChar(CharAt(name, 1)) \o SubSeq(name, 2, Len(name))

DeclaredTypes ==
    {InCase(key, case) \o modifier :
        key \in TypeKeys, case \in LetterCases, modifier \in TypeModifiers}
        \cup {"", "blob", "BLOB(16)", "JSON", "constructor", "Constructor(3)"}

Call_sqlTypeToMalloyType ==
    \E sqlType \in DeclaredTypes :
        Returns("sqlTypeToMalloyType", <<Str(sqlType)>>, sqlTypeToMalloyType(sqlType))

Call_sqlGenerateUUID ==
    Returns("sqlGenerateUUID", <<>>, Str(sqlGenerateUUID))

Call_sqlRegexpMatch ==
    \E expr \in SqlOperands, regex \in SqlOperands :
        Returns("sqlRegexpMatch", <<Str(expr), Str(regex)>>,
                Str(sqlRegexpMatch(expr, regex)))

Call_sqlSumDistinct ==
    \E key \in SqlOperands, value \in SqlOperands, funcName \in SumDistinctFuncNames :
        Returns("sqlSumDistinct", <<Str(key), Str(value), Str(funcName)>>,
                Str(sqlSumDistinct(key, value, funcName)))

Call_sqlStringAggDistinct ==
    \E key \in SqlOperands, value \in SqlOperands,
       separatorSQL \in StringAggSeparators :
        Returns("sqlStringAggDistinct", <<Str(key), Str(value), Str(separatorSQL)>>,
                Str(sqlStringAggDistinct(key, value, separatorSQL)))

Expand_regexp_extract ==
    \E value \in SqlOperands, pattern \in SqlOperands :
        Returns("regexp_extract.sql", <<Str(value), Str(pattern)>>,
                Str(regexp_extract_sql(value, pattern)))

Expand_replace ==
    \E value \in SqlOperands, pattern \in SqlOperands, replacement \in SqlOperands :
        Returns("replace.regular_expression.sql",
                <<Str(value), Str(pattern), Str(replacement)>>,
                Str(replace_regular_expression_sql(value, pattern, replacement)))

Expand_string_repeat ==
    \E value \in SqlOperands, count \in {"x", "2"} :
        Returns("string_repeat.sql", <<Str(value), Str(count)>>,
                Str(string_repeat_sql(value, count)))

Expand_strpos ==
    \E test_string \in SqlOperands, search_string \in SqlOperands :
        Returns("strpos.sql", <<Str(test_string), Str(search_string)>>,
                Str(strpos_sql(test_string, search_string)))

Expand_reverse ==
    \E str \in SqlOperands :
        Returns("reverse.sql", <<Str(str)>>, Str(string_reverse_sql(str)))

Expand_string_agg_distinct ==
    \E value \in SqlOperands, order_by \in {"", "ORDER BY x"},
       separator \in StringAggSeparators :
        Returns("string_agg_distinct.sql",
                <<Str(value), Str(order_by), Str(separator)>>,
                Str(string_agg_distinct_sql(value, order_by, separator)))

Timezones == {Undefined, Str(""), Str("UTC"), Str("America/Los_Angeles")}
TimeLiterals == {"2024-01-15", "2024-01-15 10:30:00", "2024-12-31 23:59:59.999"}

Call_sqlLiteralTime ==
    \E queryTimezone \in Timezones, timezone \in Timezones,
       type \in {"date", "timestamp"}, literal \in TimeLiterals :
        LET qi == [queryTimezone |-> queryTimezone]
            lit == [literal |-> literal, typeDef |-> [type |-> type],
                    timezone |-> timezone]
        IN  Returns("sqlLiteralTime", <<qi, lit>>, sqlLiteralTime(qi, lit))

PathInputs == {"", "t", "a.b", "a.b.c", ".b", "a.", ".", "a..b", "main.my.table"}

Call_splitPath ==
    \E str \in PathInputs : Returns("splitPath", <<Str(str)>>, splitPath(str))

Call_splitOnce ==
    \E str \in PathInputs : Returns("splitOnce", <<Str(str)>>, splitOnce(str))

RoundValues ==
    {Dec(n, 0) : n \in {-1250, -150, -50, -49, 0, 5, 49, 50, 1249, 1250, 1251}}
        \cup {Dec(12345, 3), Dec(-25, 1), Dec(125055, 2)}
RoundPrecisions == -3..3

Evaluate_round ==
    \E value \in RoundValues, precision \in RoundPrecisions :
        Returns("round.to_precision", <<value, precision>>,
                roundWithNegativePrecisionSQL(value, precision))

TimeExpressions == {"", "t", "created_at"}

Call_sqlTimeExtractExpr ==
    \E units \in ExtractUnits \cup {"millisecond"}, sql \in TimeExpressions :
        LET from == [e |-> [sql |-> sql], units |-> units]
        IN  Returns("sqlTimeExtractExpr", <<Undefined, from>>,
                    sqlTimeExtractExpr(Undefined, from))

\* the times a row may hold: every month, and days at both ends of one
Times == {[day |-> d, month |-> m] : m \in 1..12, d \in {1, 15, 28}}

\* SQLite evaluating an extraction over the time of a row
Evaluate_extract ==
    \E units \in {"quarter", "month", "day"}, time \in Times :
        Returns("extract", <<Str(units), time>>,
                Num(IF units = "quarter" THEN ExtractQuarter(time)
                    ELSE IF units = "month" THEN ExtractMonth(time)
                    ELSE ExtractDay(time)))

MaxGroupSets == 11

Call_sqlGroupSetTable ==
    \E groupSetCount \in 0..MaxGroupSets :
        Returns("sqlGroupSetTable", <<Num(groupSetCount)>>,
                Str(sqlGroupSetTable(groupSetCount)))

LiteralInputs == {"", "a", "ab c", "it's", "a\\b", "'", "\\", "a''b", "\\'", "%_"}

Call_sqlLiteralString ==
    \E literal \in LiteralInputs :
        Returns("sqlLiteralString", <<Str(literal)>>, Str(sqlLiteralString(literal)))

Call_sqlLiteralRegexp ==
    \E literal \in LiteralInputs :
        Returns("sqlLiteralRegexp", <<Str(literal)>>, Str(sqlLiteralRegexp(literal)))

\* code points: none, one below, letters, one of two bytes, one beyond the
\* basic plane
ChrValues == {0, 1, 65, 97, 233, 128512}

Evaluate_chr ==
    \E value \in ChrValues : Returns("chr", <<Num(value)>>, chr(value))

SqlValues(strings) == {Null} \cup {Str(x) : x \in strings}
GlobValues == {"", "a", "ab", "ba", "abc", "a*b", "b?", "[a]b", "[x", "Ab"}
GlobAffixes == {"", "a", "ab", "b", "*", "a*", "?", "b?", "[a]", "[", "[^a]", "A"}

Evaluate_starts_with ==
    \E value \in SqlValues(GlobValues), prefix \in SqlValues(GlobAffixes) :
        Returns("starts_with", <<value, prefix>>, starts_with(value, prefix))

Evaluate_ends_with ==
    \E value \in SqlValues(GlobValues), suffix \in SqlValues(GlobAffixes) :
        Returns("ends_with", <<value, suffix>>, ends_with(value, suffix))

DialectNext ==
    \/ Call_sqlTypeToMalloyType
    \/ Call_sqlGenerateUUID
    \/ Call_sqlRegexpMatch
    \/ Call_sqlSumDistinct
    \/ Call_sqlStringAggDistinct
    \/ Expand_regexp_extract
    \/ Expand_replace
    \/ Expand_string_repeat
    \/ Expand_strpos
    \/ Expand_reverse
    \/ Expand_string_agg_distinct
    \/ Call_sqlLiteralTime
    \/ Call_splitPath
    \/ Call_splitOnce
    \/ Evaluate_round
    \/ Call_sqlTimeExtractExpr
    \/ Evaluate_extract
    \/ Call_sqlGroupSetTable
    \/ Call_sqlLiteralString
    \/ Call_sqlLiteralRegexp
    \/ Evaluate_chr
    \/ Evaluate_starts_with
    \/ Evaluate_ends_with

SpecDialect == Init /\ [][DialectNext]_vars

(***************************************************************************)
(* C5: for every key of the type table, written in any letter case and      *)
(* followed by any length or precision modifier, sqlTypeToMalloyType        *)
(* returns the type the table assigns to that key; the keys of several      *)
(* words included.                                                          *)
(***************************************************************************)
C5_TableKeysMapToTheirType ==
    call.fn = "sqlTypeToMalloyType" =>
        \A i \in DOMAIN sqliteToMallyTypes, case \in LetterCases,
           modifier \in TypeModifiers :
            call.args[1] = Str(InCase(sqliteToMallyTypes[i][1], case) \o modifier)
                => ret = sqliteToMallyTypes[i][2]

(***************************************************************************)
(* C3: every extension function that SQL text emitted by the dialect or by  *)
(* its function catalog calls is, compared without regard to letter case,   *)
(* one of the names registerUserDefinedFunctions registers.                 *)
(***************************************************************************)
C3_Emitted ==
    {"sqlGenerateUUID", "sqlRegexpMatch", "sqlSumDistinct", "sqlStringAggDistinct",
     "regexp_extract.sql", "replace.regular_expression.sql", "string_repeat.sql",
     "strpos.sql", "reverse.sql", "string_agg_distinct.sql"}

C3_EmittedNamesRegistered ==
    call.fn \in C3_Emitted => UdfNamesIn(ret.v) \subseteq registered

(***************************************************************************)
(* C11: for a timestamp literal sqlLiteralTime throws 'Timezone not         *)
(* supported in SQLite' and returns no SQL text whenever the literal or the *)
(* query has a timezone, and returns DATETIME('<literal>') only when        *)
(* neither has one; for a date literal it returns DATE('<literal>').        *)
(***************************************************************************)
C11_HasTimezone(value) == value \notin {Undefined, Str("")}

C11_TimeLiteral ==
    call.fn = "sqlLiteralTime" =>
        LET qi == call.args[1]
            lit == call.args[2]
        IN  IF lit.typeDef.type = "date"
            THEN ret = Str("DATE('" \o lit.literal \o "')")
            ELSE IF C11_HasTimezone(lit.timezone) \/ C11_HasTimezone(qi.queryTimezone)
            THEN ret = [k |-> "throw", v |-> "Timezone not supported in SQLite"]
            ELSE ret = Str("DATETIME('" \o lit.literal \o "')")

\* a timestamp literal without a timezone in a query that has one
C11_Witness ==
    /\ call.fn = "sqlLiteralTime"
    /\ call.args[2].typeDef.type = "timestamp"
    /\ call.args[2].timezone = Undefined
    /\ call.args[1].queryTimezone = Str("America/Los_Angeles")
    /\ ret = [k |-> "throw", v |-> "Timezone not supported in SQLite"]

(***************************************************************************)
(* C12: after any sequence of operations on one connection, calls of        *)
(* registerUserDefinedFunctions with its handle included, each extension    *)
(* function name has been registered on the handle at most once.            *)
(***************************************************************************)
C12_Registrations(name) ==
    {i \in DOMAIN dbLog :
        dbLog[i].op \in {"function", "aggregate"} /\ dbLog[i].sql = name}

C12_RegisteredAtMostOnce ==
    \A name \in registered : Cardinality(C12_Registrations(name)) <= 1

(***************************************************************************)
(* C13: for every native type string whose leading keyword is not a key of  *)
(* the type table, the empty string included, sqlTypeToMalloyType does not  *)
(* throw and returns the 'sql native' type whose rawType is the input as it *)
(* was given.                                                               *)
(***************************************************************************)
C13_LeadingKeyword(sqlType) ==
    toLocaleLowerCase(SubSeq(sqlType, 1, LeadingWordLength(sqlType)))

C13_UnknownTypesAreSqlNative ==
    (/\ call.fn = "sqlTypeToMalloyType"
     /\ C13_LeadingKeyword(call.args[1].v) \notin TypeKeys)
        => ret = [type |-> "sql native", rawType |-> call.args[1].v]

(***************************************************************************)
(* C14: regexp_contains, regexp_extract, regexp_replace, string_repeat and  *)
(* reverse return null, and do not throw, whenever one of their arguments   *)
(* is null or undefined, whatever the other arguments are.                  *)
(***************************************************************************)
C14_Functions ==
    {"regexp_contains", "regexp_extract", "regexp_replace", "string_repeat", "reverse"}

C14_NullPropagates ==
    (/\ call.fn \in C14_Functions
     /\ \E i \in DOMAIN call.args : isNullOrUndefined(call.args[i]))
        => ret = Null

\* a null input with a pattern that does not compile
C14_Witness ==
    /\ call = [fn |-> "regexp_replace", args |-> <<Null, Str("("), Str("x")>>]
    /\ ret = Null

(***************************************************************************)
(* C15: a table path is split once, at its first '.': the namespace is the  *)
(* text before it, the table all the text after it, and a path without '.'  *)
(* has no namespace; namespace, '.' and table joined give the path back;    *)
(* and splitPath and splitOnce return the same segments for every path.     *)
(***************************************************************************)
C15_HasDot(path) == \E i \in 1..Len(path) : CharAt(path, i) = "."

\* the segments, in order, of what splitPath returned
C15_Segments(parts) ==
    IF "db" \in DOMAIN parts THEN <<parts.db, parts.table>> ELSE <<parts.table>>

\* segs are the path cut at its first '.', or the path itself if it has none
C15_CutAtFirstDot(segs, path) ==
    IF C15_HasDot(path)
    THEN /\ Len(segs) = 2
         /\ ~C15_HasDot(segs[1])
         /\ segs[1] \o "." \o segs[2] = path
    ELSE segs = <<path>>

C15_SplitOnceAtFirstDot ==
    /\ call.fn = "splitPath" =>
          /\ C15_CutAtFirstDot(C15_Segments(ret), call.args[1].v)
          /\ C15_Segments(ret) = splitOnce(call.args[1].v)
    /\ call.fn = "splitOnce" =>
          /\ C15_CutAtFirstDot(ret, call.args[1].v)
          /\ ret = C15_Segments(splitPath(call.args[1].v))

\* a path with two '.': the second stays in the table
C15_Witness ==
    /\ call = [fn |-> "splitPath", args |-> <<Str("main.my.table")>>]
    /\ ret = [db |-> "main", table |-> "my.table"]

(***************************************************************************)
(* C16: the round-to-precision override evaluates, for every precision      *)
(* p < 0, to ROUND(value / 10^|p|) * 10^|p|, the multiple of 10^|p| nearest  *)
(* to value, and for every p >= 0 to the native ROUND(value, p).            *)
(***************************************************************************)
\* x = y as numbers
C16_NumEq(x, y) == x.digits * 10^(y.scale) = y.digits * 10^(x.scale)

C16_RoundToPrecision ==
    call.fn = "round.to_precision" =>
        LET value == call.args[1]
            p == call.args[2]
            unit == 10^(IF p < 0 THEN -p ELSE 0)
        IN  IF p < 0
            THEN \* a whole multiple of the unit, at most half a unit away
                 /\ ret.scale = 0
                 /\ ret.digits % unit = 0
                 /\ LET distance == ret.digits * 10^(value.scale) - value.digits
                    IN  2 * (IF distance < 0 THEN -distance ELSE distance)
                            <= unit * 10^(value.scale)
            ELSE C16_NumEq(ret, SqlRound(value, p))

\* round(1250, -2)
C16_Witness ==
    /\ call = [fn |-> "round.to_precision", args |-> <<Dec(1250, 0), -2>>]
    /\ ret \in {Dec(1300, 0), Dec(1200, 0)}

(***************************************************************************)
(* C17: reverse(reverse(s)) = s for every non-null string s, and reverse    *)
(* works on code points: a character of two code units is moved as a whole  *)
(* and not split.                                                           *)
(***************************************************************************)
\* every surrogate of the text is one half of a pair
C17_WellFormed(text) ==
    \A i \in 1..Len(text) :
        /\ CharAt(text, i) \in HighSurrogates =>
              i < Len(text) /\ CharAt(text, i + 1) \in LowSurrogates
        /\ CharAt(text, i) \in LowSurrogates =>
              i > 1 /\ CharAt(text, i - 1) \in HighSurrogates

\* the code points of the text, each as the string of its code units
C17_CodePoints(text) ==
    LET starts == {i \in 1..Len(text) : CharAt(text, i) \notin LowSurrogates}
        Nth(k) == CHOOSE i \in starts : Cardinality({j \in starts : j < i}) = k - 1
    IN  [k \in 1..Cardinality(starts) |->
            IF CharAt(text, Nth(k)) \in HighSurrogates
            THEN SubSeq(text, Nth(k), Nth(k) + 1) ELSE CharAt(text, Nth(k))]

C17_ReverseIsInvolution ==
    (call.fn = "reverse" /\ ~isNullOrUndefined(call.args[1])) =>
        LET s == call.args[1].v
        IN  /\ reverse(ret) = Str(s)
            /\ C17_WellFormed(ret.v)
            /\ Len(C17_CodePoints(ret.v)) = Len(C17_CodePoints(s))
            /\ \A k \in 1..Len(C17_CodePoints(s)) :
                  C17_CodePoints(ret.v)[k]
                      = C17_CodePoints(s)[Len(C17_CodePoints(s)) + 1 - k]

\* a character of two code units between two of one
C17_Witness ==
    /\ call = [fn |-> "reverse", args |-> <<Str("aHLb")>>]
    /\ ret = Str("bHLa")

(***************************************************************************)
(* C18: the quarter expression ((month - 1) / 3) + 1, evaluated with the    *)
(* integer division SQLite applies to integer operands, is 1 for the months *)
(* 1-3, 2 for 4-6, 3 for 7-9 and 4 for 10-12, and no other value for any    *)
(* month in 1..12.                                                          *)
(***************************************************************************)
C18_QuarterOf(month) ==
    IF month \in 1..3 THEN 1
    ELSE IF month \in 4..6 THEN 2
    ELSE IF month \in 7..9 THEN 3
    ELSE 4

C18_QuarterOfMonth ==
    /\ (call.fn = "extract" /\ call.args[1] = Str("quarter")) =>
          /\ ret = Num(C18_QuarterOf(call.args[2].month))
          /\ ret.v \in 1..4
    /\ (call.fn = "sqlTimeExtractExpr" /\ call.args[2].units = "quarter"
            /\ call.args[2].e.sql # "") =>
          ret = Str("((CAST(strftime('%m', " \o call.args[2].e.sql
                        \o ") as INTEGER) - 1) / 3) + 1")

\* the last month of a quarter, where the division has a remainder of 2
C18_Witness ==
    /\ call.fn = "extract"
    /\ call.args[1] = Str("quarter")
    /\ call.args[2].month = 9
    /\ ret = Num(3)

(***************************************************************************)
(* C19: sqlGroupSetTable(N), for every N >= 0, emits a VALUES list of       *)
(* exactly N + 1 rows whose tags are the integers 0, 1, ..., N, each once   *)
(* and in increasing order.                                                 *)
(***************************************************************************)
C19_Head == "CROSS JOIN (SELECT column1 as group_set FROM (VALUES "

\* the rows of the VALUES list of the text, as they are written
C19_Rows(text) ==
    LET list == SubSeq(text, Len(C19_Head) + 1, Len(text) - 2)
        pieces == Split(list, ",")
    IN  [i \in DOMAIN pieces |->
            IF i > 1 /\ CharAt(pieces[i], 1) = " "
            THEN SubSeq(pieces[i], 2, Len(pieces[i])) ELSE pieces[i]]

\* the row is one integer in parentheses, and the integer is n
C19_IsRowOf(row, n) ==
    /\ Len(row) >= 3
    /\ CharAt(row, 1) = "("
    /\ CharAt(row, Len(row)) = ")"
    /\ IsNumericIdentifier(SubSeq(row, 2, Len(row) - 1))
    /\ ParseNat(SubSeq(row, 2, Len(row) - 1)) = n

C19_GroupSetRows ==
    call.fn = "sqlGroupSetTable" =>
        LET N == call.args[1].v
        IN  /\ SubSeq(ret.v, 1, Len(C19_Head)) = C19_Head
            /\ SubSeq(ret.v, Len(ret.v) - 1, Len(ret.v)) = "))"
            /\ Len(C19_Rows(ret.v)) = N + 1
            /\ \A i \in 1..(N + 1) : C19_IsRowOf(C19_Rows(ret.v)[i], i - 1)

\* a tag of two digits is among the rows
C19_Witness ==
    /\ call = [fn |-> "sqlGroupSetTable", args |-> <<Num(10)>>]
    /\ ret = Str("CROSS JOIN (SELECT column1 as group_set FROM (VALUES "
                    \o "(0), (1), (2), (3), (4), (5), (6), (7), (8), (9), (10)))")

(***************************************************************************)
(* C20: string_repeat(s, n) with non-null s returns null for every negative *)
(* n, the empty string for n = 0, and s concatenated n times for every      *)
(* positive integer n (string_repeat("ab", 3) is "ababab").                 *)
(***************************************************************************)
\* text is n copies of s, one after the other
C20_IsCopies(text, s, n) ==
    /\ Len(text) = n * Len(s)
    /\ \A j \in 0..(n - 1) : SubSeq(text, j * Len(s) + 1, (j + 1) * Len(s)) = s

C20_RepeatByCount ==
    (/\ call.fn = "string_repeat"
     /\ ~isNullOrUndefined(call.args[1])
     /\ ~isNullOrUndefined(call.args[2])) =>
        LET s == call.args[1].v
            n == call.args[2].v
        IN  /\ n < 0 => ret = Null
            /\ n = 0 => ret = Str("")
            /\ n > 0 => ret # Null /\ typeof(ret) = "string" /\ C20_IsCopies(ret.v, s, n)

C20_Witness ==
    /\ call = [fn |-> "string_repeat", args |-> <<Str("ab"), Num(3)>>]
    /\ ret = Str("ababab")

(***************************************************************************)
(* C21: in regexp_replace in backreference mode, a backreference whose      *)
(* digit k (1..9) is greater than the number of capture groups of the       *)
(* pattern is replaced by the empty string, for every match and every       *)
(* input; the other tokens are replaced as the digit says.                  *)
(***************************************************************************)
\* the replacement for match m of `input`, read from place i on, where a
\* digit above the number of groups gives nothing
RECURSIVE C21_Expand(_, _, _, _)
C21_Expand(replacement, input, m, i) ==
    IF i > Len(replacement) THEN ""
    ELSE IF C7_TokenAt(replacement, i)
    THEN LET d == DigitVal(CharAt(replacement, i + 2))
         IN  (IF d = 0 THEN SubSeq(input, m.index, m.end - 1)
              ELSE IF d > Len(m.caps) THEN ""
              ELSE IF m.caps[d] = Undefined THEN ""
              ELSE m.caps[d].v)
                \o C21_Expand(replacement, input, m, i + 3)
    ELSE CharAt(replacement, i) \o C21_Expand(replacement, input, m, i + 1)

C21_BackrefBeyondGroupsIsEmpty ==
    (/\ call.fn = "regexp_replace"
     /\ \A i \in 1..3 : ~isNullOrUndefined(call.args[i])
     /\ RegExp(call.args[2].v) # SyntaxError
     /\ \E d \in C7_Digits(call.args[3].v) : d > RegExp(call.args[2].v).ngroups)
        => LET input == call.args[1].v
               ms == MatchAll(RegExp(call.args[2].v), input, 1)
           IN  ret = Str(Splice(input, ms,
                                [j \in 1..Len(ms) |->
                                    C21_Expand(call.args[3].v, input, ms[j], 1)],
                                1))

(***************************************************************************)
(* C22: sqlLiteralString and sqlLiteralRegexp render every input string,    *)
(* those with single quotes or backslashes included, as exactly one SQLite  *)
(* string literal whose value as SQLite reads it (a doubled single quote is *)
(* the only escape, a backslash an ordinary character) is the input; no     *)
(* input ends the literal before its last character.                        *)
(***************************************************************************)
\* SQLite reading a string literal whose opening quote is before place i:
\* <<the value read, the place of the closing quote>>, place 0 if the text
\* ends with the literal still open
RECURSIVE C22_ReadFrom(_, _)
C22_ReadFrom(text, i) ==
    IF i > Len(text) THEN <<"", 0>>
    ELSE IF CharAt(text, i) # "'"
    THEN LET rest == C22_ReadFrom(text, i + 1)
         IN  <<CharAt(text, i) \o rest[1], rest[2]>>
    ELSE IF i < Len(text) /\ CharAt(text, i + 1) = "'"
    THEN LET rest == C22_ReadFrom(text, i + 2)
         IN  <<"'" \o rest[1], rest[2]>>
    ELSE <<"", i>>

C22_LiteralReadsBack ==
    call.fn \in {"sqlLiteralString", "sqlLiteralRegexp"} =>
        /\ Len(ret.v) >= 2
        /\ CharAt(ret.v, 1) = "'"
        /\ C22_ReadFrom(ret.v, 2) = <<call.args[1].v, Len(ret.v)>>

(***************************************************************************)
(* C23: the chr override IF(value, '', CHAR(value)) evaluates to the empty  *)
(* string when value is 0 and to the one-character string with code point   *)
(* value for every non-zero value.                                          *)
(***************************************************************************)
C23_ChrOfCodePoint ==
    call.fn = "chr" =>
        IF call.args[1].v = 0 THEN ret.v = <<>>
        ELSE ret.v = <<call.args[1].v>>

(***************************************************************************)
(* C24: the uuid extension function returns a generated UUID without        *)
(* raising in both environments: with a global crypto object that has a     *)
(* randomUUID function, and without one, where the value comes from the     *)
(* Node crypto module.                                                      *)
(***************************************************************************)
C24_ReturnsUUID ==
    call.fn = "uuid" => (~Throws(ret) /\ ret.k = "string" /\ ret.v \in GeneratedUUIDs)

(***************************************************************************)
(* C25: for non-null value and prefix (suffix), the starts_with (ends_with) *)
(* override evaluates to 1 exactly when value literally begins (ends) with  *)
(* the prefix (suffix) and to 0 otherwise, also when the prefix or suffix   *)
(* holds the GLOB metacharacters '*', '?' or '['.                           *)
(***************************************************************************)
C25_BeginsWith(value, prefix) ==
    Len(prefix) <= Len(value) /\ SubSeq(value, 1, Len(prefix)) = prefix

C25_EndsWith(value, suffix) ==
    /\ Len(suffix) <= Len(value)
    /\ SubSeq(value, Len(value) - Len(suffix) + 1, Len(value)) = suffix

C25_LiteralAffix ==
    (/\ call.fn \in {"starts_with", "ends_with"}
     /\ call.args[1] # Null
     /\ call.args[2] # Null) =>
        LET holds == IF call.fn = "starts_with"
                     THEN C25_BeginsWith(call.args[1].v, call.args[2].v)
                     ELSE C25_EndsWith(call.args[1].v, call.args[2].v)
        IN  ret = Num(IF holds THEN 1 ELSE 0)

(***************************************************************************)
(* C26: for every bag of step calls that all carry the same separator, the  *)
(* set of values the accumulator holds, and hence the set of values that    *)
(* result joins, is the same for every order in which the step calls are    *)
(* applied: it is the set of the non-null values of the bag.                *)
(***************************************************************************)
C26_Held == {acc.set[i] : i \in DOMAIN acc.set}

C26_SameValuesInEveryOrder ==
    (\A v \in AggValues : inverses[v] = 0) =>
        /\ C26_Held = {v \in AggValues : steps[v] > 0}
        /\ \A v \in AggValues :
              Occurrences(v.v, set_concat_result(acc)) = IF v \in C26_Held THEN 1 ELSE 0

\* the bag {a, b} stepped in the order b, a
C26_Witness ==
    /\ acc.set = <<Str("b"), Str("a")>>
    /\ steps[Str("a")] = 1
    /\ steps[Str("b")] = 1
    /\ \A v \in AggValues : inverses[v] = 0

(***************************************************************************)
(* C27: inverse(state, v) for a value v that is not in the set, or is null  *)
(* or undefined, does not raise and leaves the set of values and the        *)
(* separator unchanged.                                                     *)
(***************************************************************************)
\* the call is an inverse whose value, if it is one of the values counted,
\* is no member of the set; an inverse of null or undefined counts nothing
C27_InverseOfNoMember ==
    /\ AggInverse
    /\ \A v \in AggValues : inverses'[v] # inverses[v] => ~SetHas(acc.set, v)

C27_InverseOfNoMemberIsNoOp ==
    [][C27_InverseOfNoMember => (acc'.set = acc.set /\ acc'.sep = acc.sep)]_vars

\* b was taken away without ever having been added, and a is still held
C27_Witness ==
    /\ acc.set = <<Str("a")>>
    /\ acc.sep = Str(";")
    /\ steps[Str("b")] = 0
    /\ inverses[Str("b")] = 1

(***************************************************************************)
(* C30: result(state) leaves the set of values and the separator unchanged: *)
(* calling result any number of times between step and inverse calls        *)
(* returns the same string each time and does not change what later step,   *)
(* inverse or result calls produce.                                         *)
(***************************************************************************)
\* a result call leaves the accumulator as it was, so that a result call
\* right after it returns the same string and a later step or inverse
\* starts from the same state
C30_ResultLeavesState ==
    [][AggResult => /\ acc' = acc
                    /\ aggOut' = Str(set_concat_result(acc))
                    /\ set_concat_result(acc') = set_concat_result(acc)]_vars

\* result has been called with two values held and a separator stored
C30_Witness ==
    /\ acc.set = <<Str("a"), Str("b")>>
    /\ acc.sep = Str("|")
    /\ aggOut = Str("a|b")

(***************************************************************************)
(* C29: when construction aborts because the version check fails, the       *)
(* database handle that the constructor opened is closed before the error   *)
(* reaches the caller, so that no open handle is left without a connection  *)
(* object to close it.                                                      *)
(***************************************************************************)
C29_FailedVersionCheckClosesHandle ==
    (connState = "failed" /\ probe # NotRun) => ~dbOpen

(***************************************************************************)
(* C28: each aggregate invocation of udf_set_concat starts from its own     *)
(* fresh accumulator (empty set, no separator): a value or separator        *)
(* stepped into one invocation never shows in the result of another, also   *)
(* when the step, inverse and result calls of two invocations interleave    *)
(* on the same connection.                                                  *)
(***************************************************************************)
\* what the accumulator of the invocation holds, and what its result
\* returned, was stepped into this invocation
C28_OwnValuesOnly(inv) ==
    LET a == heap[inv.ref]
    IN  /\ inv.calls = 0 => a = set_concat_start
        /\ \A j \in DOMAIN a.set : a.set[j] \in inv.stepped
        /\ a.sep = Null \/ a.sep \in inv.seps
        /\ inv.out # Null =>
              /\ \A v \in AggValues :
                    Occurrences(v.v, inv.out.v) > 0 => v \in inv.stepped
              /\ \A s \in {";", "|"} :
                    Occurrences(s, inv.out.v) > 0 => Str(s) \in inv.seps

C28_InvocationsAreSeparate ==
    \A i \in 1..MaxInvocations :
        invocations[i].status = "running" =>
            /\ C28_OwnValuesOnly(invocations[i])
            /\ \A h \in 1..MaxInvocations :
                  (h # i /\ invocations[h].status = "running") =>
                      invocations[h].ref # invocations[i].ref

\* two invocations in progress at once, each with a value and a separator of
\* its own, and each with its result taken
C28_Witness ==
    /\ invocations[1].stepped = {Str("a")}
    /\ invocations[1].seps = {Str(";")}
    /\ invocations[1].out = Str("a")
    /\ invocations[2].stepped = {Str("b")}
    /\ invocations[2].seps = {Str("|")}
    /\ invocations[2].out = Str("b")

====
